---- MODULE Spec2Model ----
(***************************************************************************)
(* Model of the build-watch engine of jenkins-job-cli (cmd/run.go):        *)
(* runJob, waitForExecutor, watchTheJob (poll loop, console handle,        *)
(* progress ticker), barHandler, watchNext, listenKeys, listenInterrupt.   *)
(*                                                                         *)
(* Text is a sequence of one-character strings.  "\n" is the newline,      *)
(* "&lt;" and "&nbsp;" stand for the HTML entities of that name, "nbsp"    *)
(* for the decoded U+00A0 (white space for strings.TrimSpace).             *)
(***************************************************************************)
EXTENDS Integers, Sequences, FiniteSets, TLC

\* ------------------------------------------------------------------------
\* Program constants
\* ------------------------------------------------------------------------
size == 100
maxLines == 50
guardFactor == 10

\* ------------------------------------------------------------------------
\* Text helpers (strings.TrimSpace, strings.Split, strings.Join)
\* ------------------------------------------------------------------------
Whitespace == {" ", "\t", "\r", "nbsp"}

IsBlank(s) == \A i \in 1..Len(s) : s[i] \in Whitespace

TrimSpace(s) ==
  IF IsBlank(s) THEN <<>>
  ELSE LET idx   == {i \in 1..Len(s) : s[i] \notin Whitespace}
           first == CHOOSE i \in idx : \A k \in idx : i <= k
           last  == CHOOSE i \in idx : \A k \in idx : i >= k
       IN SubSeq(s, first, last)

\* strings.Split(text, "\n"): always at least one (possibly empty) field
Split(text) ==
  LET n   == Len(text)
      nl  == {i \in 1..n : text[i] = "\n"}
      m   == Cardinality(nl)
      pos == [k \in 0..(m + 1) |->
                IF k = 0 THEN 0
                ELSE IF k = m + 1 THEN n + 1
                ELSE CHOOSE p \in nl : Cardinality({q \in nl : q < p}) = k - 1]
  IN [k \in 1..(m + 1) |-> SubSeq(text, pos[k - 1] + 1, pos[k] - 1)]

RECURSIVE Join(_)
Join(ls) ==
  IF ls = <<>> THEN <<>>
  ELSE IF Len(ls) = 1 THEN ls[1]
  ELSE ls[1] \o <<"\n">> \o Join(Tail(ls))

\* regexp "<[^>]*>" replaced by "": leftmost matches, each from the first
\* "<" after the previous match up to the next ">"
RemoveTags(s) ==
  LET n  == Len(s)
      gt == {j \in 1..n : s[j] = ">"}
      lt == {j \in 1..n : s[j] = "<"}
      Removed(i) == /\ \E q \in gt : q >= i
                    /\ \E p \in lt : p <= i /\ \A r \in gt : r < p \/ r >= i
      kept == SelectSeq([i \in 1..n |-> i], LAMBDA i : ~Removed(i))
  IN IF lt = {} \/ gt = {} THEN s ELSE [k \in 1..Len(kept) |-> s[kept[k]]]

\* html.UnescapeString on the entities of the alphabet
Unescape(s) ==
  [i \in 1..Len(s) |-> IF s[i] = "&lt;" THEN "<"
                       ELSE IF s[i] = "&nbsp;" THEN "nbsp"
                       ELSE s[i]]

stripHTMLTags(text) ==
  LET t      == Unescape(RemoveTags(text))
      ls     == Split(t)
      result == SelectSeq(ls, LAMBDA l : ~IsBlank(l))
  IN Join(result)

\* strings.Contains(s, sub)
Contains(s, sub) ==
  \E k \in 0..(Len(s) - Len(sub)) : SubSeq(s, k + 1, k + Len(sub)) = sub

\* stand-in for the front-end tool names ("yarn", "Webpack", ...) that
\* unnamed/part_001 looks for in a console chunk
Keyword == <<"y", "n">>

\* ------------------------------------------------------------------------
\* Bounds of the model
\* ------------------------------------------------------------------------
MaxChildren == 2      \* declared downstream projects
MaxFetch    == 2      \* console fetches with new data per watch
MaxElapsed  == 200    \* the clock stops this long after a watch started
ClockStep   == 100    \* granularity of the clock
MaxKeys     == 1      \* keystrokes typed during a run
MaxSignals  == 1      \* interrupt signals delivered during a run
MaxNewer    == 3      \* builds of the job started by others meanwhile
LongLen     == 1050   \* longest console line of the normalizer runs
BatchLines  == 52     \* largest console batch of the normalizer runs
MaxListeners == 3     \* channels the stdin listener goes through
MaxPushed   == 3      \* bytes pushed to the stdin listener
MaxOthers   == 6      \* builds of the child started by other causes meanwhile
MaxPods     == 2      \* pods that match the deployment name
MaxStatusLen == 5     \* longest output of kubectl get pod, in pieces

\* program constants of the watch
tickPeriod == 100
maxPercent == 99
lookBack   == 3

Variants == {"run.go", "part_001"}

\* elapsed-time budget of failing build-info polls (run.go:472, part_001:480)
failThreshold(v) == IF v = "run.go" THEN 30 ELSE 60

\* job names: the triggered job and its declared downstream projects
JobName(j) == <<IF j % 2 = 1 THEN "deploy-app" ELSE "build-app", j>>
NoName     == <<>>
\* run.go:500-502: the name contains "deploy", "k8s" or "kubernetes"
NameAsksCheck(name) == name # NoName /\ name[1] = "deploy-app"

QueueIdOf(j) == j + 1
BuildNoOf(j) == j + 11

Results == {"SUCCESS", "FAILURE", "ABORTED"}

\* checkK8sDeployment (run.go 783-809, part_001 783-863) prints what kubectl
\* answers and ends in one of these ways; it has no result value
Outcomes == {"ok", "nopod", "error", "timeout", "interrupted"}
NoOutcome == "none"

VARIABLES
  variant, verbose, children, texts, durations,     \* the run's configuration
  now, srv,                                         \* clock, build server
  pc, job, number, informed, stime, cursor, fin, ret, needWatchDeployStatus,
  hmode, lines, hi, displayLines, seenLines, nextCursor, msg, retained, sent,
  barPc, barIn, brLines, brTicks, brDone,
  tk,
  keysPc, keyByte, keysLeft,
  intrPc, sigLeft, report,
  answer, requests,                \* the line read at the prompt; the
                                   \* cancel requests sent to the server
  argName,                         \* curSt.name as loaded for jj.CancelJob
  curSt, listenerStatus, barMutex, wid, closed, exitCode,
  trace, finishes, afterFinish, notices, donePrinted,
  checked,                         \* how the deployment check of this watch ended
  polls,                           \* what the polls of this watch observed
  matched,                         \* a chunk inspected in this watch held a keyword
  firstErr,                        \* when the first poll of this watch failed
  pattern, cluster, kubectlErr, matchedPods, selection, podsPc,  \* k8s command
  stdinCh, pending, reads,                            \* the stdin listener
  lastNo, hist, queues, findPc, bi, queueId, watching, \* watchNext's discovery
  ckPc, ctxDone, cancels, ckClock, timerPc, sigPc, monPc, podNames, podIdx,
  currentFailures, wake,                  \* checkK8sDeploymentWithContext
  execPc, fields, execOut                 \* execPodContainer

cfgVars    == <<variant, verbose, children, texts, durations>>
envVars    == <<now, srv>>
mainVars   == <<pc, job, number, informed, stime, cursor, fin, ret>>
handleVars == <<hmode, lines, hi, displayLines, seenLines, nextCursor, msg,
                retained, sent, needWatchDeployStatus>>
barVars    == <<barPc, barIn, brLines, brTicks, brDone>>
keyVars    == <<keysPc, keyByte, keysLeft>>
intrVars   == <<intrPc, sigLeft, report, answer, requests, argName>>
globVars   == <<curSt, listenerStatus, barMutex, wid, closed, exitCode>>
histVars   == <<trace, finishes, afterFinish, notices, donePrinted>>

podVars    == <<pattern, cluster, kubectlErr, matchedPods, selection, podsPc>>
stdinVars  == <<stdinCh, pending, reads>>
findVars   == <<lastNo, hist, queues, findPc, bi, queueId, watching>>
checkVars  == <<ckPc, ctxDone, cancels, ckClock, timerPc, sigPc, monPc,
                podNames, podIdx, currentFailures, wake>>
execVars   == <<execPc, fields, execOut>>
sideVars   == <<podVars, stdinVars, findVars, checkVars, execVars>>

\* the state of a run of the run command
runVars == <<cfgVars, envVars, mainVars, handleVars, barVars, tk, keyVars,
             intrVars, globVars, histVars, polls, checked, matched,
             firstErr>>

vars == <<runVars, sideVars>>

Running == exitCode = -1

WatchPcs == {"poll", "h_fetch", "h_line", "h_send", "h_ret", "k8s", "sendFinish",
             "k8sAfter", "defer"}
NoFin == [err |-> FALSE, result |-> ""]
EmptySt == [name |-> NoName, id |-> 0, queue |-> 0]
OffTicker == [pc |-> "off", ticks |-> 0, newTicks |-> 0, sel |-> 0, at |-> 0,
              dur |-> 0, stime |-> 0]

\* ------------------------------------------------------------------------
\* The build server (external): one build per job of the chain
\* ------------------------------------------------------------------------
SrvStart(j) ==
  /\ Running /\ srv[j].phase = "queued"
  /\ srv' = [srv EXCEPT ![j].phase = "building"]
  /\ UNCHANGED <<cfgVars, now, mainVars, handleVars, barVars, tk, keyVars,
                 intrVars, globVars, histVars>>
  /\ UNCHANGED <<polls, checked, matched, firstErr, sideVars>>

SrvFinish(j, r) ==
  /\ Running /\ srv[j].phase = "building"
  /\ srv' = [srv EXCEPT ![j] = [phase |-> "done", result |-> r]]
  /\ UNCHANGED <<cfgVars, now, mainVars, handleVars, barVars, tk, keyVars,
                 intrVars, globVars, histVars>>
  /\ UNCHANGED <<polls, checked, matched, firstErr, sideVars>>

\* a downstream project is triggered once the parent build succeeded
SrvTrigger(j) ==
  /\ Running /\ j >= 1 /\ j <= children
  /\ srv[j].phase = "idle"
  /\ srv[0].phase = "done" /\ srv[0].result = "SUCCESS"
  /\ srv' = [srv EXCEPT ![j].phase = "queued"]
  /\ UNCHANGED <<cfgVars, now, mainVars, handleVars, barVars, tk, keyVars,
                 intrVars, globVars, histVars>>
  /\ UNCHANGED <<polls, checked, matched, firstErr, sideVars>>

\* the upstream cause the server records for the build of job j: the declared
\* downstream projects of the triggered job are started by its build, a
\* project beyond them by the build of the last declared one
CauseOf(j) ==
  IF j <= children THEN [name |-> JobName(0), number |-> BuildNoOf(0)]
  ELSE [name |-> JobName(j - 1), number |-> BuildNoOf(j - 1)]

\* the last declared downstream project has a downstream project of its own,
\* which the server triggers once that build succeeded
SrvTriggerGrand(j) ==
  /\ Running /\ children >= 1 /\ j = children + 1
  /\ srv[j].phase = "idle"
  /\ srv[children].phase = "done" /\ srv[children].result = "SUCCESS"
  /\ srv' = [srv EXCEPT ![j].phase = "queued"]
  /\ UNCHANGED <<cfgVars, now, mainVars, handleVars, barVars, tk, keyVars,
                 intrVars, globVars, histVars>>
  /\ UNCHANGED <<polls, checked, matched, firstErr, sideVars>>

\* getTime() advances while a watch is running; the clock is kept relative to
\* stime of the running watch (the code only uses differences of getTime())
ClockTick ==
  /\ Running /\ pc \in WatchPcs
  /\ now + ClockStep <= MaxElapsed
  /\ now' = now + ClockStep
  /\ UNCHANGED <<cfgVars, srv, mainVars, handleVars, barVars, tk, keyVars,
                 intrVars, globVars, histVars>>
  /\ UNCHANGED <<polls, checked, matched, firstErr, sideVars>>

\* ------------------------------------------------------------------------
\* runJob (after jj.Build returned the queue id) and waitForExecutor
\* ------------------------------------------------------------------------
RunJobStart ==
  /\ Running /\ pc = "start"
  /\ keysPc' = "read" /\ intrPc' = "idle"
  /\ informed' = FALSE /\ notices' = 0
  /\ pc' = "record"
  /\ UNCHANGED <<cfgVars, envVars, job, number, stime, cursor, fin, ret,
                 handleVars, barVars, tk, keyByte, keysLeft, sigLeft, report,
                 curSt, listenerStatus, barMutex, wid, closed, exitCode, trace,
                 finishes, afterFinish, donePrinted>>
  /\ UNCHANGED <<polls, checked, matched, firstErr, sideVars>>
  /\ UNCHANGED <<answer, requests, argName>>

\* 256-257: curSt.queue = queueId1; curSt.name = name
RunJobRecord ==
  /\ Running /\ pc = "record"
  /\ curSt' = [name |-> JobName(0), id |-> 0, queue |-> QueueIdOf(0)]
  /\ pc' = "waitExec"
  /\ UNCHANGED <<cfgVars, envVars, job, number, stime, cursor, fin, ret,
                 handleVars, barVars, tk, keyVars, intrVars, informed,
                 listenerStatus, barMutex, wid, closed, exitCode, histVars>>
  /\ UNCHANGED <<polls, checked, matched, firstErr, sideVars>>

\* what jj.GetQueueInfo answers for the queue item of job j: while the item
\* waits it has no executable, blocked or not; once the build started it
\* names the build
QueueInfo(blocked, url, no) == [Blocked |-> blocked, URL |-> url, Number |-> no]
QueueInfos(j) ==
  IF srv[j].phase \in {"building", "done"}
  THEN {QueueInfo(FALSE, "url", BuildNoOf(j))}
  ELSE {QueueInfo(TRUE, "", 0), QueueInfo(FALSE, "", 0)}

\* 281: !queueInfo.Blocked && queueInfo.Executable.URL != ""
HasExecutorUnblocked(q) == ~q.Blocked
HasExecutor(q) == ~q.Blocked /\ q.URL # ""

waitForExecutor ==
  /\ Running /\ pc = "waitExec"
  /\ \/ \* jj.GetQueueInfo fails: check(err) ends the process
        /\ exitCode' = 1
        /\ UNCHANGED <<mainVars, curSt, trace, notices>>
     \/ \E queueInfo \in QueueInfos(job) :
          IF HasExecutor(queueInfo)
          THEN \* return its number (runJob:259, watchNext:549)
               /\ number' = queueInfo.Number
               /\ curSt' = [curSt EXCEPT !.id = queueInfo.Number]
               /\ trace' = Append(trace, [e |-> "executor", j |-> job])
               /\ pc' = "watchInit"
               /\ UNCHANGED <<job, informed, stime, cursor, fin, ret, exitCode,
                              notices>>
          ELSE \* inform once, sleep, poll again
               /\ informed' = TRUE
               /\ notices' = IF informed THEN notices ELSE notices + 1
               /\ UNCHANGED <<pc, job, number, stime, cursor, fin, ret, curSt,
                              trace, exitCode>>
  /\ UNCHANGED <<cfgVars, envVars, handleVars, barVars, tk, keyVars, intrVars,
                 listenerStatus, barMutex, wid, closed, finishes, afterFinish,
                 donePrinted>>
  /\ UNCHANGED <<polls, checked, matched, firstErr, sideVars>>

\* ------------------------------------------------------------------------
\* watchTheJob: set-up (363-399)
\* ------------------------------------------------------------------------
\* a ticker of an earlier watch, with its time stamps moved to the new origin
Rebase(t, origin) ==
  IF t.pc = "select"
  THEN [t EXCEPT !.stime = t.stime - origin, !.at = t.at - origin]
  ELSE t

WatchInit ==
  /\ Running /\ pc = "watchInit"
  /\ \E d \in durations :
       tk' = [w \in DOMAIN tk |->
                IF w = wid + 1
                THEN [pc |-> "select", ticks |-> 1, newTicks |-> 0,
                      sel |-> wid + 1, at |-> 0, dur |-> d, stime |-> 0]
                ELSE Rebase(tk[w], now)]
  /\ wid' = wid + 1
  /\ listenerStatus' = TRUE
  /\ cursor' = 0 /\ stime' = 0 /\ now' = 0
  /\ fin' = NoFin /\ ret' = "none"
  /\ needWatchDeployStatus' = TRUE
  /\ barPc' = "init" /\ barIn' = <<>> /\ brLines' = 1 /\ brTicks' = 0
  /\ brDone' = FALSE
  /\ finishes' = 0 /\ afterFinish' = 0 /\ polls' = {}
  /\ checked' = NoOutcome /\ matched' = FALSE /\ firstErr' = -1
  /\ UNCHANGED sideVars
  /\ pc' = "poll"
  /\ UNCHANGED <<cfgVars, srv, job, number, informed, hmode, lines, hi,
                 displayLines, seenLines, nextCursor, msg, retained, sent,
                 keyVars, intrVars, curSt, barMutex, closed, exitCode, trace,
                 notices, donePrinted>>

\* ------------------------------------------------------------------------
\* watchTheJob: the poll loop (469-534)
\* ------------------------------------------------------------------------
\* 472: getTime()-stime, whenever the first poll of the watch failed
BudgetFromFirstFailure(n, st, fe) == IF fe < 0 THEN 0 ELSE n - fe
Budget(n, st, fe) == n - st

\* 472: getTime()-stime > int64(30*time.Millisecond)
PastThresholdAlways(elapsed, v) == TRUE
PastThresholdNever(elapsed, v) == FALSE
PastThreshold(elapsed, v) == elapsed > failThreshold(v)

\* 483: curBuild.Result == "SUCCESS"
IsSuccessOrAborted(r) == r \in {"SUCCESS", "ABORTED"}
IsSuccess(r) == r = "SUCCESS"

Poll ==
  /\ Running /\ pc = "poll"
  /\ \/ \* GetBuildInfo fails past the threshold: finish("failed")
        /\ PastThreshold(Budget(now, stime, firstErr), variant)
        /\ fin' = [err |-> TRUE, result |-> "failed"]
        /\ ret' = "err" /\ pc' = "sendFinish"
        /\ polls' = polls \cup {"err"}
        /\ firstErr' = IF firstErr < 0 THEN now ELSE firstErr
        /\ UNCHANGED hmode
     \/ \* GetBuildInfo fails within the threshold: handle(cursor, 100)
        /\ ~PastThreshold(Budget(now, stime, firstErr), variant)
        /\ hmode' = "poll" /\ pc' = "h_fetch"
        /\ polls' = polls \cup {"err"}
        /\ firstErr' = IF firstErr < 0 THEN now ELSE firstErr
        /\ UNCHANGED <<fin, ret>>
     \/ \* still building: handle(cursor, 100)
        /\ srv[job].phase = "building"
        /\ hmode' = "poll" /\ pc' = "h_fetch"
        /\ polls' = polls \cup {"building"}
        /\ UNCHANGED <<fin, ret, firstErr>>
     \/ \* finished with SUCCESS: drain the console
        /\ srv[job].phase = "done" /\ IsSuccess(srv[job].result)
        /\ hmode' = "drain" /\ pc' = "h_fetch"
        /\ polls' = polls \cup {srv[job].result}
        /\ UNCHANGED <<fin, ret, firstErr>>
     \/ \* finished with another result
        /\ srv[job].phase = "done" /\ ~IsSuccess(srv[job].result)
        /\ fin' = [err |-> TRUE, result |-> srv[job].result]
        /\ ret' = "err" /\ pc' = "sendFinish"
        /\ polls' = polls \cup {srv[job].result}
        /\ UNCHANGED <<hmode, firstErr>>
  /\ UNCHANGED <<cfgVars, envVars, job, number, informed, stime, cursor,
                 lines, hi, displayLines, seenLines, nextCursor, msg, retained,
                 sent, needWatchDeployStatus, barVars, tk, keyVars, intrVars,
                 globVars, histVars>>
  /\ UNCHANGED <<checked, matched, sideVars>>

\* 408-411: count := len(lines), capped at 50
CountAll(n) == n
Count(n) == IF n > maxLines THEN maxLines ELSE n

\* handle (401-416): fetch, strip, split, keep the last 50 lines
HandleFetch ==
  /\ Running /\ pc = "h_fetch"
  /\ \/ \* jj.Console fails or returns the cursor it was given
        /\ nextCursor' = cursor /\ pc' = "h_ret"
        /\ lines' = <<>> /\ hi' = 0
     \/ \* new output
        /\ cursor < MaxFetch
        /\ \E t \in texts :
             LET ls == Split(stripHTMLTags(t))
             IN /\ lines' = ls
                /\ hi' = Count(Len(ls))
        /\ nextCursor' = cursor + 1 /\ pc' = "h_line"
  /\ displayLines' = <<>> /\ seenLines' = {}
  /\ retained' = <<>> /\ sent' = <<>>
  /\ UNCHANGED <<cfgVars, envVars, job, number, informed, stime, cursor, fin,
                 ret, hmode, msg, needWatchDeployStatus, barVars, tk, keyVars,
                 intrVars, globVars, histVars>>
  /\ UNCHANGED <<polls, checked, matched, firstErr, sideVars>>

\* 436: seenLines[trimmedLine]
SeenNever(seen, trimmedLine) == FALSE
Seen(seen, trimmedLine) == trimmedLine \in seen

\* 426-432: fline of iteration j
SliceToEnd(rline, j) == SubSeq(rline, j * size + 1, Len(rline))
Slice(rline, j) ==
  LET s == j * size
      e == (j + 1) * size
  IN IF Len(rline) > e THEN SubSeq(rline, s + 1, e)
     ELSE SubSeq(rline, s + 1, Len(rline))

\* 441: the loop ends after iteration j
LastSlice(rline, j) ==
  Len(rline) <= (j + 1) * size \/ Len(rline) > guardFactor * size

\* every fline the loop forms for one source line, from iteration j on
RECURSIVE Slices(_, _)
Slices(rline, j) ==
  IF LastSlice(rline, j) THEN <<Slice(rline, j)>>
  ELSE <<Slice(rline, j)>> \o Slices(rline, j + 1)

\* the chunk loop of one source line (423-445); st = displayLines, seenLines,
\* needWatchDeployStatus and the chunks retained (with their origin)
RECURSIVE ChunkLoop(_, _, _, _, _)
ChunkLoop(v, rline, src, j, st) ==
  LET fline   == Slice(rline, j)
      trimmed == TrimSpace(fline)
      need    == IF v = "part_001" /\ st.need /\ Contains(trimmed, Keyword)
                 THEN FALSE ELSE st.need
      hit     == st.hit \/ Contains(trimmed, Keyword)
      st1     == IF Len(trimmed) > 0 /\ ~Seen(st.seen, trimmed)
                 THEN [dl   |-> Append(st.dl, fline),
                       seen |-> st.seen \cup {trimmed},
                       kept |-> Append(st.kept,
                                       [src |-> src, j |-> j, text |-> fline]),
                       need |-> need, hit |-> hit]
                 ELSE [st EXCEPT !.need = need, !.hit = hit]
  IN IF LastSlice(rline, j)
     THEN st1
     ELSE ChunkLoop(v, rline, src, j + 1, st1)

\* does the loop body send after this line (447-464)
SendsNow(vb, dl, i) ==
  IF vb THEN (Len(dl) >= 3 \/ i = 1) /\ Len(dl) > 0
  ELSE Len(dl) > 0

\* what it sends
Message(vb, dl) == IF vb THEN Join(dl) ELSE dl[Len(dl)]

\* which of the retained chunks the message carries
Forwarded(vb, dl, kept) ==
  IF vb THEN SubSeq(kept, Len(kept) - Len(dl) + 1, Len(kept))
  ELSE <<kept[Len(kept)]>>

\* 418: lines[len(lines)-i]
LineIndexNewestFirst(n, i) == i
LineIndex(n, i) == n - i + 1

HandleLine ==
  /\ Running /\ pc = "h_line"
  /\ LET src == LineIndex(Len(lines), hi)
         st  == ChunkLoop(variant, lines[src], src, 0,
                          [dl |-> displayLines, seen |-> seenLines,
                           kept |-> <<>>, need |-> needWatchDeployStatus,
                           hit |-> matched])
     IN /\ displayLines' = st.dl
        /\ seenLines' = st.seen
        /\ retained' = retained \o st.kept
        /\ needWatchDeployStatus' = st.need
        /\ matched' = st.hit
        /\ IF SendsNow(verbose, st.dl, hi)
           THEN /\ msg' = Message(verbose, st.dl)
                /\ pc' = "h_send" /\ hi' = hi
           ELSE /\ msg' = msg /\ hi' = hi - 1
                /\ pc' = IF hi - 1 >= 1 THEN "h_line" ELSE "h_ret"
  /\ UNCHANGED <<cfgVars, envVars, job, number, informed, stime, cursor, fin,
                 ret, hmode, lines, nextCursor, sent, barVars, tk, keyVars,
                 intrVars, globVars, histVars>>
  /\ UNCHANGED <<polls, checked, firstErr, sideVars>>

\* chMsg <- text: received by the coordinator's select (321)
SendLine ==
  /\ Running /\ pc = "h_send" /\ barPc = "select"
  /\ barIn' = msg /\ barPc' = "msg"
  /\ afterFinish' = IF finishes > 0 THEN afterFinish + 1 ELSE afterFinish
  /\ sent' = sent \o Forwarded(verbose, displayLines, retained)
  /\ displayLines' = <<>> /\ msg' = <<>>
  /\ hi' = hi - 1
  /\ pc' = IF hi - 1 >= 1 THEN "h_line" ELSE "h_ret"
  /\ UNCHANGED <<cfgVars, envVars, job, number, informed, stime, cursor, fin,
                 ret, hmode, lines, seenLines, nextCursor, retained,
                 needWatchDeployStatus, brLines, brTicks, brDone, tk, keyVars,
                 intrVars, globVars, trace, finishes, notices, donePrinted>>
  /\ UNCHANGED <<polls, checked, matched, firstErr, sideVars>>

\* 495, 524: cursor = nc; the cursor of the next fetch is the one returned
AdvancedStays(cur, nc) == cur
Advanced(cur, nc) == nc

\* handle returns: 522-533 in the poll loop, 484-510 in the final drain
HandleReturn ==
  /\ Running /\ pc = "h_ret"
  /\ IF hmode = "poll" \/ nextCursor # cursor
     THEN /\ cursor' = Advanced(cursor, nextCursor)
          /\ pc' = IF hmode = "poll" THEN "poll" ELSE "h_fetch"
          /\ UNCHANGED <<fin, ret>>
     ELSE \* the drain is over: finish(nil, SUCCESS); run.go checks the
          \* deployment first when the name asks for it
          /\ fin' = [err |-> FALSE, result |-> "SUCCESS"]
          /\ ret' = "nil"
          /\ pc' = IF variant = "run.go" /\ NameAsksCheck(JobName(job))
                   THEN "k8s" ELSE "sendFinish"
          /\ UNCHANGED cursor
  /\ lines' = <<>> /\ hi' = 0 /\ displayLines' = <<>> /\ seenLines' = {}
  /\ retained' = <<>> /\ sent' = <<>> /\ nextCursor' = 0
  /\ UNCHANGED <<cfgVars, envVars, job, number, informed, stime, hmode, msg,
                 needWatchDeployStatus, barVars, tk, keyVars, intrVars,
                 globVars, histVars>>
  /\ UNCHANGED <<polls, checked, matched, firstErr, sideVars>>

\* what watchTheJob goes on to return once the check has ended: the value it
\* held before (run.go 500-510, part_001 506-516)
ReturnedFailing(outcome, r) == IF outcome = "ok" THEN r ELSE "err"
Returned(outcome, r) == r

\* checkK8sDeployment: before the finish in run.go (500-505), after it in
\* part_001 (511-515)
checkK8sDeployment ==
  /\ Running /\ pc \in {"k8s", "k8sAfter"}
  /\ \E outcome \in Outcomes :
       /\ checked' = outcome
       /\ ret' = Returned(outcome, ret)
  /\ pc' = IF pc = "k8s" THEN "sendFinish" ELSE "defer"
  /\ UNCHANGED <<cfgVars, envVars, job, number, informed, stime, cursor, fin,
                 handleVars, barVars, tk, keyVars, intrVars, globVars,
                 histVars>>
  /\ UNCHANGED <<polls, matched, firstErr, sideVars>>

\* finishCh <- info: received by the coordinator's select (333)
SendFinish ==
  /\ Running /\ pc = "sendFinish" /\ barPc = "select"
  /\ barIn' = fin /\ barPc' = "finish"
  /\ finishes' = finishes + 1
  /\ trace' = Append(trace, [e |-> "finish", j |-> job, err |-> fin.err,
                             result |-> fin.result, ticked |-> brTicks,
                             built |-> "building" \in polls])
  /\ pc' = IF variant = "part_001" /\ ~fin.err /\ needWatchDeployStatus
           THEN "k8sAfter" ELSE "defer"
  /\ UNCHANGED <<cfgVars, envVars, job, number, informed, stime, cursor, fin,
                 ret, handleVars, brLines, brTicks, brDone, tk, keyVars,
                 intrVars, globVars, afterFinish, notices, donePrinted>>
  /\ UNCHANGED <<polls, checked, matched, firstErr, sideVars>>

\* the deferred calls: wg.Wait(), close(closeCh), listenerStatus = false
WatchReturn ==
  /\ Running /\ pc = "defer" /\ barPc = "done"
  /\ closed' = closed \cup {wid}
  /\ listenerStatus' = FALSE
  /\ trace' = Append(trace, [e |-> "return", j |-> job, err |-> ret = "err"])
  /\ pc' = "afterWatch"
  /\ UNCHANGED <<cfgVars, envVars, job, number, informed, stime, cursor, fin,
                 ret, handleVars, barVars, tk, keyVars, intrVars, curSt,
                 barMutex, wid, exitCode, finishes, afterFinish, notices,
                 donePrinted>>
  /\ UNCHANGED <<polls, checked, matched, firstErr, sideVars>>

\* ------------------------------------------------------------------------
\* barHandler (294-360): the render coordinator
\* ------------------------------------------------------------------------
\* 299-312: the bar is created and ticked once under the mutex
BarInit ==
  /\ Running /\ barPc = "init" /\ barMutex = "free"
  /\ brTicks' = 1 /\ barPc' = "select"
  /\ UNCHANGED <<cfgVars, envVars, mainVars, handleVars, barIn, brLines,
                 brDone, tk, keyVars, intrVars, globVars, histVars>>
  /\ UNCHANGED <<polls, checked, matched, firstErr, sideVars>>

\* 321-331: a text interrupts the bar, the empty message ticks it
BarMsg ==
  /\ Running /\ barPc = "msg" /\ barMutex = "free"
  /\ brTicks' = IF barIn = <<>> THEN brTicks + 1 ELSE brTicks
  /\ barPc' = "select"
  /\ UNCHANGED <<cfgVars, envVars, mainVars, handleVars, barIn, brLines,
                 brDone, tk, keyVars, intrVars, globVars, histVars>>
  /\ UNCHANGED <<polls, checked, matched, firstErr, sideVars>>

\* 316-320: Enter adds a line to the bar
BarKey ==
  /\ Running /\ barPc = "key" /\ barMutex = "free"
  /\ brLines' = brLines + 1
  /\ barPc' = "select"
  /\ UNCHANGED <<cfgVars, envVars, mainVars, handleVars, barIn, brTicks,
                 brDone, tk, keyVars, intrVars, globVars, histVars>>
  /\ UNCHANGED <<polls, checked, matched, firstErr, sideVars>>

\* where the coordinator goes after it rendered the finish (354: return)
AfterFinishStay == "select"
AfterFinishPc == "done"

\* 333-354: the terminal update
BarFinish ==
  /\ Running /\ barPc = "finish" /\ barMutex = "free"
  /\ brLines' = IF barIn.err /\ brLines < 5 THEN 10 ELSE brLines
  /\ brDone' = TRUE
  /\ barPc' = AfterFinishPc
  /\ UNCHANGED <<cfgVars, envVars, mainVars, handleVars, barIn, brTicks, tk,
                 keyVars, intrVars, globVars, histVars>>
  /\ UNCHANGED <<polls, checked, matched, firstErr, sideVars>>

\* ------------------------------------------------------------------------
\* the progress-ticking goroutine of watch w (384-399)
\* ------------------------------------------------------------------------
\* int(float64(dtime) / float64(lastBuild.Duration) * 100); the conversion of
\* +Inf or NaN to int is implementation-specific (smallest int on amd64,
\* largest int or 0 on arm64)
Percent(dtime, dur) ==
  IF dur = 0
  THEN IF dtime = 0 THEN {-2147483647, 0} ELSE {-2147483647, 2147483647}
  ELSE {(dtime * 100) \div dur}

\* 391: for ticks < newTicks && ticks < 99
LoopOnUncapped(t, nt) == t < nt
LoopOn(t, nt) == t < nt /\ t < maxPercent

\* the ticker after a loop body: in the send loop while LoopOn holds, else
\* back at the select, where closeCh is read and a new timer is started
AfterBody(t, tcks, nt) ==
  IF LoopOn(tcks, nt)
  THEN [t EXCEPT !.pc = "send", !.ticks = tcks, !.newTicks = nt,
                 !.sel = 0, !.at = 0]
  ELSE [t EXCEPT !.pc = "select", !.ticks = tcks, !.newTicks = 0,
                 !.sel = wid, !.at = now]

\* time.After fires
TickerWake(w) ==
  /\ Running /\ tk[w].pc = "select"
  /\ now - tk[w].at >= tickPeriod
  /\ \E nt \in Percent(now - tk[w].stime, tk[w].dur) :
       tk' = [tk EXCEPT ![w] = AfterBody(tk[w], tk[w].ticks, nt)]
  /\ UNCHANGED <<cfgVars, envVars, mainVars, handleVars, barVars, keyVars,
                 intrVars, globVars, histVars>>
  /\ UNCHANGED <<polls, checked, matched, firstErr, sideVars>>

\* 392: the text the ticker sends
ProgressMark == <<".">>
ProgressTick == <<>>

\* chMsg <- "" ; ticks++ : received by the coordinator of the same watch
TickerSend(w) ==
  /\ Running /\ tk[w].pc = "send"
  /\ w = wid /\ barPc = "select"
  /\ barIn' = ProgressTick /\ barPc' = "msg"
  /\ afterFinish' = IF finishes > 0 THEN afterFinish + 1 ELSE afterFinish
  /\ tk' = [tk EXCEPT ![w] = AfterBody(tk[w], tk[w].ticks + 1,
                                        tk[w].newTicks)]
  /\ UNCHANGED <<cfgVars, envVars, mainVars, handleVars, brLines, brTicks,
                 brDone, keyVars, intrVars, globVars, trace, finishes,
                 notices, donePrinted>>
  /\ UNCHANGED <<polls, checked, matched, firstErr, sideVars>>

\* the channel read at the select has been closed
TickerClose(w) ==
  /\ Running /\ tk[w].pc = "select"
  /\ tk[w].sel \in closed
  /\ tk' = [tk EXCEPT ![w] = [OffTicker EXCEPT !.pc = "done",
                                               !.ticks = tk[w].ticks]]
  /\ UNCHANGED <<cfgVars, envVars, mainVars, handleVars, barVars, keyVars,
                 intrVars, globVars, histVars>>
  /\ UNCHANGED <<polls, checked, matched, firstErr, sideVars>>

\* ------------------------------------------------------------------------
\* runJob after a watch returned (260-273) and watchNext (537-594)
\* ------------------------------------------------------------------------
\* 260, 266: if err != nil { return err }
FailedNever(r) == FALSE
Failed(r) == r = "err"

\* 265: for _, uj := range jobInfo.DownstreamProjects
NextChildSkip(j) == j + 2
NextChild(j) == j + 1

\* 264, 270: curSt = st{}
ClearedQueueOnly(s) == [s EXCEPT !.queue = 0]
Cleared(s) == EmptySt

\* the arguments parentName and parentJobID of the last call of watchNext
CallCause(tr) ==
  LET calls == SelectSeq(tr, LAMBDA ev : ev.e = "watchNext")
  IN calls[Len(calls)].cause

\* 266: watchNext(env, name, jChild.Name, number, keyCh) with runJob's own
\* name and number: those of the first call, made when the watch of the
\* triggered job (job j = 0, build num) had returned, and the same in every
\* later call
ParentArgsChained(j, num, tr) == [name |-> JobName(j), number |-> num]
ParentArgs(j, num, tr) ==
  IF j = 0 THEN [name |-> JobName(0), number |-> num] ELSE CallCause(tr)

RunJobNext ==
  /\ Running /\ pc = "afterWatch"
  /\ IF Failed(ret)
     THEN \* 261-263 / 267-269: the chain stops; the command returns
          /\ pc' = "returned" /\ exitCode' = 0
          /\ UNCHANGED <<job, curSt, trace, donePrinted>>
     ELSE /\ curSt' = Cleared(curSt)
          /\ IF job < children
             THEN /\ job' = NextChild(job) /\ pc' = "watchNext"
                  /\ trace' = Append(trace,
                                     [e |-> "watchNext", j |-> NextChild(job),
                                      cause |-> ParentArgs(job, number, trace)])
                  /\ UNCHANGED <<exitCode, donePrinted>>
             ELSE /\ donePrinted' = TRUE
                  /\ pc' = "finished" /\ exitCode' = 0
                  /\ UNCHANGED <<job, trace>>
  /\ UNCHANGED <<cfgVars, envVars, number, informed, stime, cursor, fin, ret,
                 handleVars, barVars, tk, keyVars, intrVars, listenerStatus,
                 barMutex, wid, closed, finishes, afterFinish, notices>>
  /\ polls' = {}
  /\ UNCHANGED <<checked, matched, firstErr, sideVars>>

\* one round of watchNext's loop: findDownstreamInBuilds, then
\* findDownstreamInQueue, then sleep and retry
watchNext ==
  /\ Running /\ pc = "watchNext"
  /\ \/ \* jj.GetJobInfo of the child fails: check(err)
        /\ exitCode' = 1
        /\ UNCHANGED <<number, informed, curSt, notices, pc>>
     \/ \* a recent build names the parent as its cause: watch it
        /\ CauseOf(job) = CallCause(trace)
        /\ srv[job].phase \in {"building", "done"}
        /\ curSt' = [curSt EXCEPT !.name = JobName(job), !.id = BuildNoOf(job)]
        /\ number' = BuildNoOf(job)
        /\ pc' = "watchInit"
        /\ UNCHANGED <<informed, notices, exitCode>>
     \/ \* no such build seen, but a queue entry: wait for its executor
        /\ CauseOf(job) = CallCause(trace)
        /\ srv[job].phase = "queued"
        /\ curSt' = [curSt EXCEPT !.name = JobName(job),
                                  !.queue = QueueIdOf(job)]
        /\ informed' = FALSE /\ notices' = 0
        /\ pc' = "waitExec"
        /\ UNCHANGED <<number, exitCode>>
     \/ \* neither: 542-546, then retry after 250ms
        /\ CauseOf(job) # CallCause(trace) \/ srv[job].phase # "queued"
        /\ curSt' = [curSt EXCEPT !.name = JobName(job), !.queue = 0]
        /\ UNCHANGED <<number, informed, notices, exitCode, pc>>
  /\ UNCHANGED <<cfgVars, envVars, job, stime, cursor, fin, ret, handleVars,
                 barVars, tk, keyVars, intrVars, listenerStatus, barMutex,
                 wid, closed, trace, finishes, afterFinish, donePrinted>>
  /\ UNCHANGED <<polls, checked, matched, firstErr, sideVars>>

\* ------------------------------------------------------------------------
\* listenKeys (596-611)
\* ------------------------------------------------------------------------
Enter == 10
KeyBytes == {Enter, 97}

\* 316: if []byte(stdin)[0] == 10
AddsLineAlways(b) == TRUE
AddsLine(b) == b = Enter

KeysRead(b) ==
  /\ Running /\ keysPc = "read" /\ keysLeft > 0
  /\ keyByte' = b /\ keysLeft' = keysLeft - 1
  /\ keysPc' = "lock"
  /\ UNCHANGED <<cfgVars, envVars, mainVars, handleVars, barVars, tk,
                 intrVars, globVars, histVars>>
  /\ UNCHANGED <<polls, checked, matched, firstErr, sideVars>>

\* barMutex.Lock(); without a listening watch the byte is dropped
KeysLock ==
  /\ Running /\ keysPc = "lock" /\ barMutex = "free"
  /\ IF listenerStatus
     THEN barMutex' = "keys" /\ keysPc' = "send"
     ELSE barMutex' = "free" /\ keysPc' = "read"
  /\ UNCHANGED <<cfgVars, envVars, mainVars, handleVars, barVars, tk, keyByte,
                 keysLeft, intrVars, curSt, listenerStatus, wid, closed,
                 exitCode, histVars>>
  /\ UNCHANGED <<polls, checked, matched, firstErr, sideVars>>

\* out <- string(bt), received by the coordinator's select (315); Unlock
KeysSend ==
  /\ Running /\ keysPc = "send" /\ barPc = "select"
  /\ barPc' = IF AddsLine(keyByte) THEN "key" ELSE "select"
  /\ afterFinish' = IF finishes > 0 THEN afterFinish + 1 ELSE afterFinish
  /\ barMutex' = "free" /\ keysPc' = "read"
  /\ UNCHANGED <<cfgVars, envVars, mainVars, handleVars, barIn, brLines,
                 brTicks, brDone, tk, keyByte, keysLeft, intrVars, curSt,
                 listenerStatus, wid, closed, exitCode, trace, finishes,
                 notices, donePrinted>>
  /\ UNCHANGED <<polls, checked, matched, firstErr, sideVars>>

\* ------------------------------------------------------------------------
\* listenInterrupt (613-679): the cancellation controller
\* ------------------------------------------------------------------------
NoReport == <<>>
JobOfName(name)  == name[2]
JobOfQueue(q)    == q - 1

\* 617-618: a signal is taken from the channel
\* 618: if curSt.name != ""
SessionActiveAlways(s) == TRUE
SessionActive(s) == s.name # NoName

Signal ==
  /\ Running /\ intrPc = "idle" /\ sigLeft > 0
  /\ sigLeft' = sigLeft - 1
  /\ intrPc' = IF SessionActive(curSt) THEN "lock" ELSE "idle"
  /\ UNCHANGED <<cfgVars, envVars, mainVars, handleVars, barVars, tk, keyVars,
                 report, globVars, histVars>>
  /\ UNCHANGED <<polls, checked, matched, firstErr, sideVars>>
  /\ UNCHANGED <<answer, requests, argName>>

\* 619-624: barMutex.Lock(), then the prompt is shown
IntrLock ==
  /\ Running /\ intrPc = "lock" /\ barMutex = "free"
  /\ barMutex' = "intr" /\ intrPc' = "prompt"
  /\ UNCHANGED <<cfgVars, envVars, mainVars, handleVars, barVars, tk, keyVars,
                 sigLeft, report, curSt, listenerStatus, wid, closed, exitCode,
                 histVars>>
  /\ UNCHANGED <<polls, checked, matched, firstErr, sideVars>>
  /\ UNCHANGED <<answer, requests, argName>>

\* lines the user may type at the prompt
Answers == {"Y", "y", "n", ""}
NoAnswer == "none"

\* 633: line == "Y" || line == "y"
ConfirmsAny(line) == TRUE
Confirms(line) == line \in {"Y", "y"}

\* 629-633, 675: the answer is read
IntrAnswer ==
  /\ Running /\ intrPc = "prompt"
  /\ \/ \* io.EOF
        /\ exitCode' = 1 /\ UNCHANGED <<intrPc, answer>>
     \/ \E line \in Answers :
          /\ answer' = line
          /\ IF Confirms(line)
             THEN intrPc' = "cancelQueue" /\ UNCHANGED exitCode
             ELSE exitCode' = 0 /\ UNCHANGED intrPc
  /\ UNCHANGED <<requests, argName>>
  /\ UNCHANGED <<cfgVars, envVars, mainVars, handleVars, barVars, tk, keyVars,
                 sigLeft, report, curSt, listenerStatus, barMutex, wid, closed,
                 histVars>>
  /\ UNCHANGED <<polls, checked, matched, firstErr, sideVars>>

\* curSt is written by the main goroutine and read here without any
\* synchronisation: each read below is a step of its own and sees the value
\* the session has at that moment

\* 635: if curSt.queue != 0
IntrCancelQueue ==
  /\ Running /\ intrPc = "cancelQueue"
  /\ intrPc' = IF curSt.queue # 0 THEN "callQueue" ELSE "checkId"
  /\ UNCHANGED <<answer, requests, argName>>
  /\ UNCHANGED <<cfgVars, envVars, mainVars, handleVars, barVars, tk, keyVars,
                 sigLeft, report, globVars, histVars>>
  /\ UNCHANGED <<polls, checked, matched, firstErr, sideVars>>

\* 636-637: jj.CancelQueue(env, curSt.queue) removes the entry if it is
\* still queued
IntrCallQueue ==
  /\ Running /\ intrPc = "callQueue"
  /\ srv' = IF curSt.queue # 0 /\ srv[JobOfQueue(curSt.queue)].phase = "queued"
            THEN [srv EXCEPT ![JobOfQueue(curSt.queue)].phase = "cancelled"]
            ELSE srv
  /\ requests' = requests \cup {[kind |-> "queue", id |-> curSt.queue,
                                  name |-> curSt.name]}
  /\ intrPc' = "checkId"
  /\ UNCHANGED <<answer, argName>>
  /\ UNCHANGED <<cfgVars, now, mainVars, handleVars, barVars, tk, keyVars,
                 sigLeft, report, globVars, histVars>>
  /\ UNCHANGED <<polls, checked, matched, firstErr, sideVars>>

\* 639: if curSt.id != 0
IntrCheckId ==
  /\ Running /\ intrPc = "checkId"
  /\ intrPc' = IF curSt.id # 0 THEN "loadName" ELSE "lookup"
  /\ UNCHANGED <<answer, requests, argName>>
  /\ UNCHANGED <<cfgVars, envVars, mainVars, handleVars, barVars, tk, keyVars,
                 sigLeft, report, globVars, histVars>>
  /\ UNCHANGED <<polls, checked, matched, firstErr, sideVars>>

\* 641: the first argument of jj.CancelJob(env, curSt.name, curSt.id)
IntrLoadName ==
  /\ Running /\ intrPc = "loadName"
  /\ argName' = curSt.name
  /\ intrPc' = "cancelJob"
  /\ UNCHANGED <<answer, requests>>
  /\ UNCHANGED <<cfgVars, envVars, mainVars, handleVars, barVars, tk, keyVars,
                 sigLeft, report, globVars, histVars>>
  /\ UNCHANGED <<polls, checked, matched, firstErr, sideVars>>

\* 644, 648, 651, 665, 668: os.Exit(0) follows every report
ReportedStatusEscalates(r) == IF r[1] \in {"Canceled", "Canceled!"} THEN 0 ELSE 1
ReportedStatus(r) == 0

\* 646: status != "ABORTED"
IsAbortedAlways(status) == TRUE
IsAborted(status) == status = "ABORTED"

\* the server has build id of the job called name
HasBuild(name, id) ==
  /\ name # NoName /\ id = BuildNoOf(JobOfName(name))
  /\ srv[JobOfName(name)].phase \in {"building", "done"}

\* 641-652: jj.CancelJob with the name loaded and the id the session holds
\* now; it stops a running build and returns the build's result, and fails
\* for a build the server does not have
IntrCancelJob ==
  /\ Running /\ intrPc = "cancelJob"
  /\ \/ \* the request fails
        /\ report' = <<"failed to cancel job">>
        /\ exitCode' = ReportedStatus(report')
        /\ UNCHANGED srv
     \/ \* the request is answered with the build's status
        /\ HasBuild(argName, curSt.id)
        /\ LET j == JobOfName(argName)
           IN /\ srv' = IF srv[j].phase = "building"
                        THEN [srv EXCEPT ![j] = [phase |-> "done",
                                                 result |-> "ABORTED"]]
                        ELSE srv
              /\ report' = IF IsAborted(srv'[j].result)
                           THEN <<"Canceled">>
                           ELSE <<"already executed", srv'[j].result>>
              /\ exitCode' = ReportedStatus(report')
  /\ requests' = requests \cup {[kind |-> "job", id |-> curSt.id,
                                  name |-> argName]}
  /\ UNCHANGED <<answer, argName>>
  /\ UNCHANGED <<cfgVars, now, mainVars, handleVars, barVars, tk, keyVars,
                 intrPc, sigLeft, curSt, listenerStatus, barMutex, wid, closed,
                 histVars>>
  /\ UNCHANGED <<polls, checked, matched, firstErr, sideVars>>

\* 653-675: only a queue entry was known: look for its build among the
\* last three builds of the job
IntrLookup ==
  /\ Running /\ intrPc = "lookup"
  /\ IF curSt.queue # 0 /\ curSt.id = 0
     THEN LET j == JobOfName(curSt.name)
          IN \/ \* jj.GetJobInfo fails: check(err)
                /\ exitCode' = 1 /\ UNCHANGED report
             \/ \* newer: builds of the job started by others since ours;
                \* ok: jj.GetBuildInfo of our build answers
                \E newer \in 0..MaxNewer, ok \in BOOLEAN :
                  /\ report' =
                       IF /\ srv[j].phase \in {"building", "done"}
                          /\ QueueIdOf(j) = curSt.queue
                          /\ newer < lookBack /\ ok
                       THEN IF srv[j].result # "ABORTED"
                            THEN <<"already executed", srv[j].result>>
                            ELSE <<"Canceled!">>
                       ELSE <<"Canceled!!!">>
                  /\ exitCode' = ReportedStatus(report')
     ELSE exitCode' = 0 /\ UNCHANGED report
  /\ UNCHANGED <<cfgVars, envVars, mainVars, handleVars, barVars, tk, keyVars,
                 intrPc, sigLeft, curSt, listenerStatus, barMutex, wid, closed,
                 histVars>>
  /\ UNCHANGED <<polls, checked, matched, firstErr, sideVars>>
  /\ UNCHANGED <<answer, requests, argName>>

\* ------------------------------------------------------------------------
\* Initial states and specifications
\* ------------------------------------------------------------------------
Rep(c, n) == [i \in 1..n |-> c]

\* console output of the full runs: markup, a blank line, a repeated line
\* and a keyword
RunTexts ==
  { <<"<", "i", ">", "a", " ", "\n", " ", "\n", "a", "\n", "y", "n">> }

\* the k8s command is not running; no stdin listener exists
IdlePods ==
  /\ pattern = <<>> /\ cluster = <<>> /\ matchedPods = <<>>
  /\ kubectlErr = FALSE
  /\ selection = "none" /\ podsPc = "off"
IdleStdin == stdinCh = 0 /\ pending = <<>> /\ reads = <<>>
IdleCheck ==
  /\ ckPc = "idle" /\ ctxDone = FALSE /\ cancels = {} /\ ckClock = 0
  /\ timerPc = "off" /\ sigPc = "off" /\ monPc = "off" /\ podNames = 0
  /\ podIdx = 0 /\ currentFailures = 0 /\ wake = 0
IdleExec == execPc = "off" /\ fields = <<>> /\ execOut = "none"
IdleFind ==
  /\ lastNo = 0 /\ hist = <<>> /\ queues = <<>> /\ findPc = "off"
  /\ bi = 0 /\ queueId = 0 /\ watching = <<>>

InitRunVars ==
  /\ now = 0
  /\ srv = [j \in 0..MaxChildren |->
              [phase |-> IF j = 0 THEN "queued" ELSE "idle", result |-> ""]]
  /\ pc = "start" /\ job = 0 /\ number = 0 /\ informed = FALSE
  /\ stime = 0 /\ cursor = 0 /\ fin = NoFin /\ ret = "none"
  /\ needWatchDeployStatus = TRUE
  /\ hmode = "poll" /\ lines = <<>> /\ hi = 0 /\ displayLines = <<>>
  /\ seenLines = {} /\ nextCursor = 0 /\ msg = <<>> /\ retained = <<>>
  /\ sent = <<>>
  /\ barPc = "off" /\ barIn = <<>> /\ brLines = 0 /\ brTicks = 0
  /\ brDone = FALSE
  /\ tk = [w \in 1..(MaxChildren + 1) |-> OffTicker]
  /\ keysPc = "off" /\ keyByte = 0
  /\ intrPc = "off" /\ report = NoReport
  /\ answer = NoAnswer /\ requests = {} /\ argName = NoName
  /\ curSt = EmptySt /\ listenerStatus = FALSE /\ barMutex = "free"
  /\ wid = 0 /\ closed = {} /\ exitCode = -1
  /\ trace = <<>> /\ finishes = 0 /\ afterFinish = 0 /\ notices = 0
  /\ donePrinted = FALSE /\ polls = {} /\ checked = NoOutcome
  /\ matched = FALSE /\ firstErr = -1

InitRun ==
  InitRunVars /\ IdlePods /\ IdleStdin /\ IdleFind /\ IdleCheck /\ IdleExec

\* the (file, verbose flag) pairs of the full runs
RunConfigs == {<<"run.go", FALSE>>, <<"part_001", TRUE>>}

\* One watched job; the user types keys; the console produces output
Init ==
  /\ InitRun
  /\ \E c \in RunConfigs : variant = c[1] /\ verbose = c[2]
  /\ children = 0
  /\ texts = RunTexts
  /\ durations = {5000}
  /\ keysLeft = MaxKeys
  /\ sigLeft = 0

ServerNext ==
  \/ \E j \in 0..MaxChildren : SrvStart(j)
  \/ \E j \in 0..MaxChildren, r \in Results : SrvFinish(j, r)

\* the watch without console output, ticks and keys
QuietWatchNext ==
  \/ RunJobStart
  \/ RunJobRecord
  \/ waitForExecutor
  \/ WatchInit
  \/ Poll
  \/ HandleFetch
  \/ HandleReturn
  \/ checkK8sDeployment
  \/ SendFinish
  \/ WatchReturn
  \/ RunJobNext
  \/ BarInit
  \/ BarFinish
  \/ \E w \in 1..(MaxChildren + 1) : TickerClose(w)

TickNext ==
  \/ ServerNext
  \/ QuietWatchNext
  \/ ClockTick
  \/ BarMsg
  \/ \E w \in 1..(MaxChildren + 1) : TickerWake(w)
  \/ \E w \in 1..(MaxChildren + 1) : TickerSend(w)

Next ==
  \/ TickNext
  \/ HandleLine
  \/ SendLine
  \/ BarKey
  \/ \E b \in KeyBytes : KeysRead(b)
  \/ KeysLock
  \/ KeysSend

Spec == Init /\ [][Next]_vars

\* The chain of downstream projects within the failure-time threshold of
\* each watch; no console output, no keys
InitChain ==
  /\ InitRun
  /\ variant \in Variants
  /\ verbose = FALSE
  /\ children \in 0..MaxChildren
  /\ texts = {}
  /\ durations = {5000}
  /\ keysLeft = 0
  /\ sigLeft = 0

ChainNext ==
  \/ ServerNext
  \/ \E j \in 1..MaxChildren : SrvTrigger(j)
  \/ QuietWatchNext
  \/ watchNext

SpecChain == InitChain /\ [][ChainNext]_vars

\* A chain whose last declared downstream project may have a downstream
\* project of its own
InitDepth ==
  /\ InitRun
  /\ variant = "run.go"
  /\ verbose = FALSE
  /\ children \in 1..MaxChildren
  /\ texts = {}
  /\ durations = {5000}
  /\ keysLeft = 0
  /\ sigLeft = 0

DepthNext ==
  \/ ChainNext
  \/ \E j \in 2..MaxChildren : SrvTriggerGrand(j)

SpecDepth == InitDepth /\ [][DepthNext]_vars

\* A chain with one downstream project while the user types keys
InitChainKeys ==
  /\ InitRun
  /\ variant \in Variants
  /\ verbose = FALSE
  /\ children = 1
  /\ texts = {}
  /\ durations = {5000}
  /\ keysLeft = MaxKeys
  /\ sigLeft = 0

ChainKeysNext ==
  \/ ChainNext
  \/ BarKey
  \/ \E b \in KeyBytes : KeysRead(b)
  \/ KeysLock
  \/ KeysSend

SpecChainKeys == InitChainKeys /\ [][ChainKeysNext]_vars

\* Interrupts during a run with at most one downstream project
InitCancel ==
  /\ InitRun
  /\ variant = "run.go"
  /\ verbose = FALSE
  /\ children \in 0..1
  /\ texts = {}
  /\ durations = {5000}
  /\ keysLeft = 0
  /\ sigLeft = MaxSignals

CancelNext ==
  \/ ChainNext
  \/ Signal
  \/ IntrLock
  \/ IntrAnswer
  \/ IntrCancelQueue
  \/ IntrCallQueue
  \/ IntrCheckId
  \/ IntrLoadName
  \/ IntrCancelJob
  \/ IntrLookup

SpecCancel == InitCancel /\ [][CancelNext]_vars

\* the goroutine of listenInterrupt is scheduled and its requests to the
\* server come back
IntrNext ==
  \/ IntrCancelQueue
  \/ IntrCallQueue
  \/ IntrCheckId
  \/ IntrLoadName
  \/ IntrCancelJob
  \/ IntrLookup
SpecCancelFair == SpecCancel /\ WF_vars(IntrNext)

\* The progress estimator against several reference durations
InitTick ==
  /\ InitRun
  /\ variant = "part_001"
  /\ verbose = FALSE
  /\ children = 0
  /\ texts = {}
  /\ durations = {0, 100, 150, 300, 5000}
  /\ keysLeft = 0
  /\ sigLeft = 0

SpecTick == InitTick /\ [][TickNext]_vars

\* The normalizer on long lines and large batches of lines
Pattern == <<"a", "b", "b", "b", "b", "b", "b", "b", "b", "b", "b">>
Cyclic(n) == [i \in 1..n |-> Pattern[((i - 1) % Len(Pattern)) + 1]]
Batch(n) == Join([k \in 1..n |-> Rep("a", k)])
NormLens == {1, size, size + 1, 2 * size + 50, guardFactor * size,
             guardFactor * size + 1, LongLen}
NormTexts ==
  {Cyclic(n) : n \in NormLens}
    \cup {Rep("a", 2 * size + 50)}
    \cup {Batch(n) : n \in {maxLines, BatchLines}}
    \cup {Cyclic(2 * size + 50) \o <<"\n", "c">>}
    \cup {<<" ", "\n", "\t">>}
    \cup {<<" ", "a", "\n", "a", " ", "\n", "a", "\n", "<", "b", ">", "\n",
            "y", "n", "\n", "a">>}

\* the watch of the triggered job at its first console fetch, after a poll
\* saw the build finished with SUCCESS
InitNorm ==
  /\ variant = "part_001"
  /\ verbose \in BOOLEAN
  /\ children = 0
  /\ \E t \in NormTexts : texts = {t}
  /\ durations = {5000}
  /\ keysLeft = 0
  /\ sigLeft = 0
  /\ now = 0
  /\ srv = [j \in 0..MaxChildren |->
              IF j = 0 THEN [phase |-> "done", result |-> "SUCCESS"]
              ELSE [phase |-> "idle", result |-> ""]]
  /\ pc = "h_fetch" /\ job = 0 /\ number = BuildNoOf(0) /\ informed = FALSE
  /\ stime = 0 /\ cursor = 0 /\ fin = NoFin /\ ret = "none"
  /\ needWatchDeployStatus = TRUE
  /\ hmode = "drain" /\ lines = <<>> /\ hi = 0 /\ displayLines = <<>>
  /\ seenLines = {} /\ nextCursor = 0 /\ msg = <<>> /\ retained = <<>>
  /\ sent = <<>>
  /\ barPc = "select" /\ barIn = <<>> /\ brLines = 1 /\ brTicks = 1
  /\ brDone = FALSE
  /\ tk = [w \in 1..(MaxChildren + 1) |->
             IF w = 1
             THEN [pc |-> "select", ticks |-> 1, newTicks |-> 0, sel |-> 1,
                   at |-> 0, dur |-> 5000, stime |-> 0]
             ELSE OffTicker]
  /\ keysPc = "read" /\ keyByte = 0
  /\ intrPc = "idle" /\ report = NoReport
  /\ answer = NoAnswer /\ requests = {} /\ argName = NoName
  /\ curSt = [name |-> JobName(0), id |-> BuildNoOf(0),
              queue |-> QueueIdOf(0)]
  /\ listenerStatus = TRUE /\ barMutex = "free"
  /\ wid = 1 /\ closed = {} /\ exitCode = -1
  /\ trace = <<[e |-> "executor", j |-> 0]>>
  /\ finishes = 0 /\ afterFinish = 0 /\ notices = 0
  /\ donePrinted = FALSE /\ polls = {"SUCCESS"} /\ checked = NoOutcome
  /\ matched = FALSE /\ firstErr = -1
  /\ IdlePods /\ IdleStdin /\ IdleFind /\ IdleCheck /\ IdleExec

NormNext ==
  \/ HandleFetch
  \/ HandleLine
  \/ SendLine
  \/ BarMsg
  \/ HandleReturn

SpecNorm == InitNorm /\ [][NormNext]_vars

\* One watched job under both files; no console output, no keys, and the
\* ticker is never scheduled
InitPoll ==
  /\ InitRun
  /\ variant \in Variants
  /\ verbose \in BOOLEAN
  /\ children = 0
  /\ texts = {}
  /\ durations = {5000}
  /\ keysLeft = 0
  /\ sigLeft = 0

PollNext ==
  \/ ServerNext
  \/ QuietWatchNext
  \/ ClockTick

SpecPoll == InitPoll /\ [][PollNext]_vars

\* ------------------------------------------------------------------------
\* The k8s command (cmd/k8s.go): findMatchingPods and its caller
\* ------------------------------------------------------------------------
\* strings.ToLower on the alphabet of the pod names
ToLower(str) ==
  [i \in 1..Len(str) |-> IF str[i] = "A" THEN "a"
                         ELSE IF str[i] = "B" THEN "b"
                         ELSE str[i]]

\* strings.HasPrefix(str, prefix)
HasPrefix(str, prefix) ==
  Len(str) >= Len(prefix) /\ SubSeq(str, 1, Len(prefix)) = prefix

\* strings.TrimSpace on kubectl's output: line ends are white space too
TrimOutput(str) ==
  LET ws  == Whitespace \cup {"\n"}
      idx == {i \in 1..Len(str) : str[i] \notin ws}
  IN IF idx = {} THEN <<>>
     ELSE SubSeq(str, CHOOSE i \in idx : \A k \in idx : i <= k,
                      CHOOSE i \in idx : \A k \in idx : i >= k)

\* what `kubectl get pods --no-headers -o custom-columns=NAME:...` prints
\* for the pods of the namespace: one name per line
RECURSIVE KubectlOutput(_)
KubectlOutput(pods) ==
  IF pods = <<>> THEN <<>>
  ELSE pods[1] \o <<"\n">> \o KubectlOutput(Tail(pods))

\* 222: the test of one pod name against the lower-cased pattern
Matches(pod, pat) == HasPrefix(ToLower(pod), pat)

\* 215-228: the loop over the lines of the output
MatchedPods(output, pat) ==
  LET allPods == Split(TrimOutput(output))
      lowered == ToLower(pat)
  IN SelectSeq(allPods, LAMBDA pod : pod # <<>> /\ Matches(pod, lowered))

\* findMatchingPods(pattern, namespace): nil when kubectl fails
findMatchingPods ==
  /\ podsPc = "find"
  /\ \E err \in BOOLEAN :
       /\ kubectlErr' = err
       /\ matchedPods' = IF err THEN <<>>
                         ELSE MatchedPods(KubectlOutput(cluster), pattern)
  /\ podsPc' = "found"
  /\ UNCHANGED <<pattern, cluster, selection, stdinVars, findVars, runVars,
                 checkVars, execVars>>

\* showPodStatus (102-117): no match falls back to the label app=NAME, one
\* match is used, several are offered for selection
showPodStatus ==
  /\ podsPc = "found"
  /\ selection' = IF Len(matchedPods) = 0 THEN "label"
                  ELSE IF Len(matchedPods) = 1 THEN "one" ELSE "ask"
  /\ podsPc' = "shown"
  /\ UNCHANGED <<pattern, cluster, kubectlErr, matchedPods, stdinVars,
                 findVars, runVars,
                 checkVars, execVars>>

\* the run command is not running
IdleRun ==
  /\ InitRunVars
  /\ variant = "run.go" /\ verbose = FALSE /\ children = 0
  /\ texts = {} /\ durations = {} /\ keysLeft = 0 /\ sigLeft = 0

\* pod names of a namespace, in the order kubectl lists them, and the NAME
\* arguments of the command
PodNames ==
  << <<"A", "b", "-", "1">>, <<"a", "b", "-", "2">>, <<"b">>,
     <<"x", "-", "a", "b">> >>
Patterns == { <<"a", "b">>, <<"A", "B">>, <<"b">>, <<"x", "-">>, <<"c">> }
Clusters ==
  { SelectSeq(PodNames, LAMBDA n : \E i \in S : PodNames[i] = n) :
      S \in SUBSET (1..Len(PodNames)) }

InitPods ==
  /\ IdleRun /\ IdleStdin /\ IdleFind /\ IdleCheck /\ IdleExec
  /\ pattern \in Patterns /\ cluster \in Clusters
  /\ kubectlErr = FALSE /\ matchedPods = <<>> /\ selection = "none"
  /\ podsPc = "find"

PodsNext ==
  \/ findMatchingPods
  \/ showPodStatus

SpecPods == InitPods /\ [][PodsNext]_vars

\* ------------------------------------------------------------------------
\* The stdin listener (jjStdin), as cmd/stdin_test.go exercises it
\* ------------------------------------------------------------------------
\* NewListener: the channel that replaces channel c
FreshChannel(c) == c + 1

\* Read(buf): the count it returns for a slice received from the channel
ReadCountNone(bytes) == 0
ReadCount(bytes) == Len(bytes)

\* stdin.NewListener()
NewListener ==
  /\ stdinCh \in 1..(MaxListeners - 1)
  /\ stdinCh' = FreshChannel(stdinCh)
  /\ UNCHANGED <<pending, reads, podVars, findVars, runVars,
                 checkVars, execVars>>

\* stdin.ch <- []byte{b}: a sender blocks on the listener's channel of the
\* moment until a Read receives from that channel
Push(b) ==
  /\ stdinCh >= 1
  /\ Len(pending) + Len(reads) < MaxPushed
  /\ pending' = Append(pending, [ch |-> stdinCh, bytes |-> <<b>>])
  /\ UNCHANGED <<stdinCh, reads, podVars, findVars, runVars,
                 checkVars, execVars>>

\* n, err := stdin.Read(buf): receives from one of the senders blocked on
\* the current channel
Read ==
  /\ stdinCh >= 1
  /\ \E i \in DOMAIN pending :
       /\ pending[i].ch = stdinCh
       /\ reads' = Append(reads, [n |-> ReadCount(pending[i].bytes),
                                  err |-> FALSE,
                                  buf |-> pending[i].bytes[1],
                                  ch |-> stdinCh])
       /\ pending' = SubSeq(pending, 1, i - 1)
                       \o SubSeq(pending, i + 1, Len(pending))
  /\ UNCHANGED <<stdinCh, podVars, findVars, runVars,
                 checkVars, execVars>>

\* NewStdin(): the listener has a channel
InitStdin ==
  /\ IdleRun /\ IdlePods /\ IdleFind /\ IdleCheck /\ IdleExec
  /\ stdinCh = 1 /\ pending = <<>> /\ reads = <<>>

StdinNext ==
  \/ NewListener
  \/ \E b \in KeyBytes : Push(b)
  \/ Read

SpecStdin == InitStdin /\ [][StdinNext]_vars

\* ------------------------------------------------------------------------
\* watchNext's discovery of the downstream build (537-594), on a child with a
\* build history and the server's queue
\* ------------------------------------------------------------------------
\* the parent's identity (watchNext's parentName, parentJobID) and the child
ParentName  == "build-app"
ParentJobID == 11
ChildName   == "deploy-app"

\* what jj.GetBuildInfo gives for a build of the child: the upstream cause of
\* the build, or nothing when the call fails
NoInfo == [project |-> "", build |-> 0, err |-> TRUE]
Cause(project, build) == [project |-> project, build |-> build, err |-> FALSE]
ByParent     == Cause(ParentName, ParentJobID)
ByOlderBuild == Cause(ParentName, ParentJobID - 1)
ByOtherJob   == Cause("other-app", ParentJobID)

\* jj.GetBuildInfo(env, childName, n): builds that do not exist give an error
InfoOf(h, n) == IF n \in DOMAIN h THEN h[n] ELSE NoInfo

\* 569: c.UpstreamBuild == parent && c.UpstreamProject == parentName
CausedBy(c, parentName, parent) ==
  ~c.err /\ c.build = parent /\ c.project = parentName

\* 563: for i := 5; i >= 0; i--  (the builds number-5 .. number, in that order)
OffsetsNewestFirst == <<0, 1, 2, 3, 4, 5>>
Offsets == <<5, 4, 3, 2, 1, 0>>

\* findDownstreamInBuilds: the number of the first build of the walk that
\* names the parent, 0 for "not found"
FoundBuild(h, last) ==
  LET hits == {k \in DOMAIN Offsets :
                 CausedBy(InfoOf(h, last - Offsets[k]), ParentName,
                          ParentJobID)}
  IN IF hits = {} THEN 0
     ELSE last - Offsets[CHOOSE k \in hits : \A m \in hits : k <= m]

\* findDownstreamInQueue: the index of the first queue item of the child that
\* names the parent, 0 for "not found"
FoundQueue(qs) ==
  LET hits == {k \in DOMAIN qs :
                 /\ qs[k].task = ChildName
                 /\ CausedBy(qs[k].cause, ParentName, ParentJobID)}
  IN IF hits = {} THEN 0 ELSE CHOOSE k \in hits : \A m \in hits : k <= m

\* 539: bi, err := findDownstreamInBuilds(...); 551-555 when it found one
findDownstreamInBuilds ==
  /\ findPc = "builds"
  /\ \/ \* jj.GetJobInfo fails: check(err) ends the process
        /\ findPc' = "exit" /\ UNCHANGED <<bi, watching>>
     \/ /\ bi' = FoundBuild(hist, lastNo)
        /\ IF FoundBuild(hist, lastNo) # 0
           THEN /\ watching' = [kind |-> "build", id |-> FoundBuild(hist, lastNo)]
                /\ findPc' = "watch"
           ELSE findPc' = "queue" /\ UNCHANGED watching
  /\ UNCHANGED <<lastNo, hist, queues, queueId, podVars, stdinVars, runVars,
                 checkVars, execVars>>

\* 541-547: queueId, err := findDownstreamInQueue(...)
findDownstreamInQueue ==
  /\ findPc = "queue"
  /\ LET k == FoundQueue(queues)
     IN IF k # 0
        THEN queueId' = queues[k].id /\ findPc' = "wait"
        ELSE queueId' = 0 /\ findPc' = "sleep"
  /\ UNCHANGED <<lastNo, hist, queues, bi, watching, podVars, stdinVars,
                 runVars,
                 checkVars, execVars>>

\* 545-546: time.Sleep(250ms); continue: where the loop goes on
AfterSleepStop == "stopped"
AfterSleep == "builds"

RetryDiscovery ==
  /\ findPc = "sleep"
  /\ findPc' = AfterSleep
  /\ UNCHANGED <<lastNo, hist, queues, bi, queueId, watching, podVars,
                 stdinVars, runVars,
                 checkVars, execVars>>

\* 548-550: waitForExecutor(env, queueId), then watchTheJob on its build
WatchQueued ==
  /\ findPc = "wait"
  /\ watching' = [kind |-> "queue", id |-> queueId]
  /\ findPc' = "watch"
  /\ UNCHANGED <<lastNo, hist, queues, bi, queueId, podVars, stdinVars,
                 runVars,
                 checkVars, execVars>>

\* build histories of the child: LastBuild.Number is 2 or 7, every build of
\* the last six has one of the causes or no info
HistCauses == {ByParent, ByOlderBuild, ByOtherJob, NoInfo}
Histories ==
  [1..2 -> HistCauses]
    \cup {h \in [1..7 -> HistCauses] : h[1] \in {ByParent, NoInfo}}
QueueItem(task, cause, id) == [task |-> task, cause |-> cause, id |-> id]
QueueLists ==
  { <<>>,
    <<QueueItem("other-app", ByParent, 31), QueueItem(ChildName, ByOlderBuild, 32),
      QueueItem(ChildName, ByOtherJob, 33)>>,
    <<QueueItem("other-app", ByParent, 31), QueueItem(ChildName, ByParent, 34),
      QueueItem(ChildName, ByParent, 35)>> }

InitFind ==
  /\ IdleRun /\ IdlePods /\ IdleStdin /\ IdleCheck /\ IdleExec
  /\ hist \in Histories /\ lastNo = Len(hist)
  /\ queues \in QueueLists
  /\ findPc = "builds" /\ bi = 0 /\ queueId = 0 /\ watching = <<>>

FindNext ==
  \/ findDownstreamInBuilds
  \/ findDownstreamInQueue
  \/ RetryDiscovery
  \/ WatchQueued

SpecFind == InitFind /\ [][FindNext]_vars

\* The same discovery while the server changes: the parent's trigger puts the
\* child in the queue, the queued item starts as the next build, and other
\* causes start builds of the child
ChildItem == QueueItem(ChildName, ByParent, 34)
Triggered ==
  \/ \E k \in DOMAIN queues : queues[k] = ChildItem
  \/ \E n \in DOMAIN hist : hist[n] = ByParent

ChildQueued ==
  /\ findPc \notin {"off", "exit"} /\ ~Triggered
  /\ queues' = Append(queues, ChildItem)
  /\ UNCHANGED <<lastNo, hist, findPc, bi, queueId, watching, podVars,
                 stdinVars, runVars,
                 checkVars, execVars>>

ChildStarts ==
  /\ findPc \notin {"off", "exit"}
  /\ \E k \in DOMAIN queues :
       /\ queues[k] = ChildItem
       /\ queues' = SubSeq(queues, 1, k - 1) \o SubSeq(queues, k + 1, Len(queues))
  /\ hist' = Append(hist, ByParent) /\ lastNo' = lastNo + 1
  /\ UNCHANGED <<findPc, bi, queueId, watching, podVars, stdinVars, runVars,
                 checkVars, execVars>>

OtherBuild ==
  /\ findPc \notin {"off", "exit"}
  /\ Cardinality({n \in DOMAIN hist : hist[n] = ByOtherJob}) < MaxOthers
  /\ hist' = Append(hist, ByOtherJob) /\ lastNo' = lastNo + 1
  /\ UNCHANGED <<queues, findPc, bi, queueId, watching, podVars, stdinVars,
                 runVars,
                 checkVars, execVars>>

InitDiscover ==
  /\ IdleRun /\ IdlePods /\ IdleStdin /\ IdleCheck /\ IdleExec
  /\ hist = <<ByOlderBuild, NoInfo>> /\ lastNo = 2
  /\ queues \in {<<>>, <<QueueItem("other-app", ByParent, 31)>>}
  /\ findPc = "builds" /\ bi = 0 /\ queueId = 0 /\ watching = <<>>

DiscoverNext ==
  \/ FindNext
  \/ ChildQueued
  \/ ChildStarts
  \/ OtherBuild

\* watchNext runs in the main goroutine, which is scheduled as long as the
\* process lives; the server's changes are not forced
SpecDiscover ==
  InitDiscover /\ [][DiscoverNext]_vars /\ WF_vars(FindNext)

\* ------------------------------------------------------------------------
\* checkK8sDeploymentWithContext and watchSpecificPodsWithContext
\* (unnamed/part_001 826-923); times in seconds
\* ------------------------------------------------------------------------
checkTimeout == 100       \* 798: 100*time.Second
podSleep == 5             \* 920: time.Sleep(5 * time.Second)
maxFailures == 1          \* 913: currentFailures > 1

\* cancel(): the context is done; the call is recorded with its reason
Cancel(reason) == ctxDone' = TRUE /\ cancels' = cancels \cup {reason}

\* 832-858: the context, the three goroutines, then <-ctx.Done()
CheckStart ==
  /\ ckPc = "idle"
  /\ ckPc' = "wait" /\ timerPc' = "sleep" /\ sigPc' = "wait" /\ monPc' = "find"
  /\ UNCHANGED <<ctxDone, cancels, ckClock, podNames, podIdx,
                 currentFailures, wake>>
  /\ UNCHANGED <<runVars, podVars, stdinVars, findVars, execVars>>

\* 835-839: a signal is received from signalChan
SignalArrives ==
  /\ sigPc = "wait"
  /\ sigPc' = "done" /\ Cancel("signal")
  /\ UNCHANGED <<ckPc, ckClock, timerPc, monPc, podNames, podIdx,
                 currentFailures, wake>>
  /\ UNCHANGED <<runVars, podVars, stdinVars, findVars, execVars>>

\* 843: time.Sleep(timeout) is over
TimerDueNever(clock) == FALSE
TimerDue(clock) == clock >= checkTimeout

\* 842-846: the timeout goroutine
TimerFire ==
  /\ timerPc = "sleep" /\ TimerDue(ckClock)
  /\ timerPc' = "done" /\ Cancel("timeout")
  /\ UNCHANGED <<ckPc, ckClock, sigPc, monPc, podNames, podIdx,
                 currentFailures, wake>>
  /\ UNCHANGED <<runVars, podVars, stdinVars, findVars, execVars>>

\* time passes while the check waits; a sleep that is over ends before more
\* time passes, and so does the wait on a context that is done
CheckTick ==
  /\ ckPc = "wait" /\ ~ctxDone
  /\ ~(timerPc = "sleep" /\ TimerDue(ckClock))
  /\ ckClock < checkTimeout + podSleep
  /\ ckClock' = ckClock + podSleep
  /\ UNCHANGED <<ckPc, ctxDone, cancels, timerPc, sigPc, monPc, podNames,
                 podIdx, currentFailures, wake>>
  /\ UNCHANGED <<runVars, podVars, stdinVars, findVars, execVars>>

\* 849-858: findMatchingPodsForDeployment (800-823; nil when kubectl fails)
FindPods ==
  /\ monPc = "find"
  /\ \E n \in 0..MaxPods :
       /\ podNames' = n
       /\ IF n = 0
          THEN monPc' = "done" /\ Cancel("nopod")
          ELSE monPc' = "select" /\ UNCHANGED <<ctxDone, cancels>>
  /\ UNCHANGED <<ckPc, ckClock, timerPc, sigPc, podIdx, currentFailures, wake>>
  /\ UNCHANGED <<runVars, podVars, stdinVars, findVars, execVars>>

\* 871-875: select on ctx.Done(), default: a round over the pods
MonSelect ==
  /\ monPc = "select"
  /\ IF ctxDone THEN monPc' = "done" /\ UNCHANGED podIdx
     ELSE monPc' = "pods" /\ podIdx' = 1
  /\ UNCHANGED <<ckPc, ctxDone, cancels, ckClock, timerPc, sigPc, podNames,
                 currentFailures, wake>>
  /\ UNCHANGED <<runVars, podVars, stdinVars, findVars, execVars>>

\* 877-885: kubectl get pod under the context: it fails when the context is
\* done, and may fail otherwise
PodStatus ==
  /\ monPc = "pods" /\ podIdx <= podNames
  /\ \E err \in BOOLEAN :
       /\ ctxDone => err
       /\ currentFailures' = IF err THEN currentFailures + 1
                             ELSE currentFailures
  /\ podIdx' = podIdx + 1
  /\ UNCHANGED <<ckPc, ctxDone, cancels, ckClock, timerPc, sigPc, monPc,
                 podNames, wake>>
  /\ UNCHANGED <<runVars, podVars, stdinVars, findVars, execVars>>

\* 913-920: after the round
RoundEnd ==
  /\ monPc = "pods" /\ podIdx > podNames
  /\ IF currentFailures > maxFailures
     THEN monPc' = "done" /\ Cancel("failures") /\ UNCHANGED wake
     ELSE /\ monPc' = "sleep" /\ wake' = ckClock + podSleep
          /\ UNCHANGED <<ctxDone, cancels>>
  /\ UNCHANGED <<ckPc, ckClock, timerPc, sigPc, podNames, podIdx,
                 currentFailures>>
  /\ UNCHANGED <<runVars, podVars, stdinVars, findVars, execVars>>

\* 920: the sleep of the monitor is over (the clock is not advanced once the
\* context is done; the sleep ends all the same)
MonWake ==
  /\ monPc = "sleep" /\ (ckClock >= wake \/ ctxDone)
  /\ monPc' = "select"
  /\ UNCHANGED <<ckPc, ctxDone, cancels, ckClock, timerPc, sigPc, podNames,
                 podIdx, currentFailures, wake>>
  /\ UNCHANGED <<runVars, podVars, stdinVars, findVars, execVars>>

\* 862: <-ctx.Done()
CheckReturn ==
  /\ ckPc = "wait" /\ ctxDone
  /\ ckPc' = "returned"
  /\ UNCHANGED <<ctxDone, cancels, ckClock, timerPc, sigPc, monPc, podNames,
                 podIdx, currentFailures, wake>>
  /\ UNCHANGED <<runVars, podVars, stdinVars, findVars, execVars>>

InitCheck ==
  /\ IdleRun /\ IdlePods /\ IdleStdin /\ IdleFind /\ IdleExec
  /\ IdleCheck

CheckNext ==
  \/ CheckStart
  \/ SignalArrives
  \/ TimerFire
  \/ CheckTick
  \/ FindPods
  \/ MonSelect
  \/ PodStatus
  \/ RoundEnd
  \/ MonWake
  \/ CheckReturn

\* time passes, and the timeout goroutine and the caller are scheduled; the
\* monitor's kubectl calls and the signal are not forced
SpecCheck ==
  /\ InitCheck /\ [][CheckNext]_vars
  /\ WF_vars(CheckTick) /\ WF_vars(TimerFire) /\ WF_vars(CheckReturn)

\* ------------------------------------------------------------------------
\* execPodContainer (k8s.go 730-748): the pod must be running before a shell
\* is opened in it
\* ------------------------------------------------------------------------
\* the output of kubectl get pod --no-headers is a text of pieces: white
\* space, and pieces of words
StatusPieces == {" ", "p", "0", "Running"}
StatusLines == UNION {[1..n -> StatusPieces] : n \in 0..MaxStatusLen}

\* strings.Fields: the maximal runs of pieces that are not white space
RECURSIVE FieldsFrom(_, _, _)
FieldsFrom(s, cur, acc) ==
  IF s = <<>> THEN (IF cur = <<>> THEN acc ELSE Append(acc, cur))
  ELSE IF Head(s) \in Whitespace \cup {"\n"}
       THEN FieldsFrom(Tail(s), <<>>,
                       IF cur = <<>> THEN acc ELSE Append(acc, cur))
       ELSE FieldsFrom(Tail(s), Append(cur, Head(s)), acc)
Fields(s) == FieldsFrom(s, <<>>, <<>>)

\* 736-744: kubectl get pod fails, or its output is split into fields
ExecGet ==
  /\ execPc = "off"
  /\ \/ /\ execPc' = "returned" /\ execOut' = "noSuchPod"
        /\ fields' = fields
     \/ \E output \in StatusLines :
          /\ fields' = Fields(output)
          /\ execPc' = "check" /\ execOut' = execOut
  /\ UNCHANGED <<runVars, podVars, stdinVars, findVars, checkVars>>

\* 745: len(fields) < 3 || fields[2] != "Running" (fields[2] of the code
\* is the third field, fields[3] here)
ExecCheck ==
  /\ execPc = "check"
  /\ IF Len(fields) < 3 \/ fields[3] # <<"Running">>
     THEN execPc' = "report" /\ execOut' = execOut
     ELSE execPc' = "exec" /\ execOut' = "entering"
  /\ UNCHANGED <<fields, runVars, podVars, stdinVars, findVars, checkVars>>

\* 746-747: the arguments of Printf are evaluated, fields[2] among them: an
\* index past the end of the slice panics; otherwise the state is printed
\* and the function returns
ExecReport ==
  /\ execPc = "report"
  /\ IF 3 \in DOMAIN fields
     THEN execPc' = "returned" /\ execOut' = "notRunning"
     ELSE execPc' = "panicked" /\ execOut' = "index out of range"
  /\ UNCHANGED <<fields, runVars, podVars, stdinVars, findVars, checkVars>>

InitExec ==
  /\ IdleRun /\ IdlePods /\ IdleStdin /\ IdleFind /\ IdleCheck /\ IdleExec

ExecNext ==
  \/ ExecGet
  \/ ExecCheck
  \/ ExecReport

SpecExec == InitExec /\ [][ExecNext]_vars

\* ------------------------------------------------------------------------
\* Properties
\* ------------------------------------------------------------------------
\* the events of the run's log that satisfy P
Events(P(_)) == SelectSeq(trace, P)
IsFinish(ev)    == ev.e = "finish"
IsReturn(ev)    == ev.e = "return"
IsWatchNext(ev) == ev.e = "watchNext"

\* C1: when a call of watchTheJob has returned, the coordinator of that watch
\* has received exactly one finish update, and at no time has it received a
\* tick, a line message or a keystroke after the finish.
C1_OneFinishAndLast ==
  /\ pc = "afterWatch" => finishes = 1
  /\ afterFinish = 0

\* C1 witness: a watch has returned whose coordinator received a tick, a
\* console line and an Enter keystroke before its finish.
C1_Witness ==
  /\ pc = "afterWatch" /\ finishes = 1 /\ ~fin.err
  /\ brTicks >= 2 /\ brLines = 2 /\ cursor >= 1

\* the declared downstream projects for which watchNext was invoked, in order
Walked == [i \in DOMAIN Events(IsWatchNext) |-> Events(IsWatchNext)[i].j]
ParentSucceeded ==
  \E i \in DOMAIN trace :
    IsFinish(trace[i]) /\ trace[i].j = 0 /\ ~trace[i].err
Declared == [i \in 1..children |-> i]

\* C2 (amended): when the watch of the triggered job ends with the finish
\* (nil, SUCCESS), the log of the run reads: executor found, the bar ticked at
\* least once, that single finish, the watch returning nil; after it watchNext
\* is invoked for the declared downstream projects in declaration order, each
\* at most once and each only after the watch before it returned nil, and for
\* every one of them once runJob has returned without error.
C2_SuccessOrder ==
  /\ \A i \in DOMAIN trace :
        IsFinish(trace[i]) /\ trace[i].j = 0 /\ ~trace[i].err =>
          /\ trace[i].result = "SUCCESS" /\ trace[i].ticked >= 1
          /\ i = 2 /\ trace[1] = [e |-> "executor", j |-> 0]
          /\ \A k \in DOMAIN trace :
                IsFinish(trace[k]) /\ trace[k].j = 0 => k = i
          /\ i + 1 \in DOMAIN trace =>
                trace[i + 1] = [e |-> "return", j |-> 0, err |-> FALSE]
  /\ \A i \in DOMAIN trace :
        IsWatchNext(trace[i]) =>
          /\ i > 1
          /\ trace[i - 1] = [e |-> "return", j |-> trace[i].j - 1,
                             err |-> FALSE]
  /\ \E n \in 0..children : Walked = [i \in 1..n |-> i]
  /\ pc = "finished" => Walked = Declared

\* C2 witness: the polls saw the triggered job building and then SUCCESS, and
\* the run went through every declared downstream project.
C2_Witness ==
  /\ pc = "finished" /\ children = MaxChildren
  /\ trace[2].built /\ ~trace[2].err
  /\ Walked = Declared

\* C2 as stated: after the triggered job succeeded, watchNext is invoked
\* exactly once for each declared downstream project (seen when runJob is
\* over).
C2_WalksEveryChild ==
  pc \in {"returned", "finished"} /\ ParentSucceeded => Walked = Declared

\* C3: once a poll has seen the build finished with a result R other than
\* SUCCESS, the watch sends exactly one finish, carrying an error and R, and
\* returns an error.
C3_FailedResult ==
  \A R \in polls \ {"err", "building", "SUCCESS"} :
    /\ pc \in {"sendFinish", "defer", "afterWatch"}
    /\ fin = [err |-> TRUE, result |-> R] /\ ret = "err"
    /\ finishes = IF pc = "sendFinish" THEN 0 ELSE 1
    /\ pc # "sendFinish" =>
          LET f == Events(IsFinish)[Len(Events(IsFinish))]
          IN f.j = job /\ f.err /\ f.result = R
    /\ pc = "afterWatch" =>
          trace[Len(trace)] = [e |-> "return", j |-> job, err |-> TRUE]

\* C3 witness: a watch that polled the job building and then FAILURE has
\* returned.
C3_Witness ==
  pc = "afterWatch" /\ {"building", "FAILURE"} \subseteq polls

\* C4: after a watch returned an error nothing else is watched (no watchNext,
\* no executor wait, no finish follows in the log) and 'done' is not printed;
\* 'done' is printed only when the watches of the triggered job and of every
\* declared downstream project returned nil.
C4_ChainHalts ==
  /\ \A i \in DOMAIN trace :
        IsReturn(trace[i]) /\ trace[i].err =>
          /\ i = Len(trace)
          /\ pc \in {"afterWatch", "returned"}
          /\ ~donePrinted
  /\ donePrinted =>
        \A j \in 0..children :
          \E i \in DOMAIN trace :
            trace[i] = [e |-> "return", j |-> j, err |-> FALSE]

\* C4 witness: the first of two downstream projects failed and runJob
\* returned without watching the second.
C4_Witness ==
  /\ pc = "returned" /\ children = 2 /\ job = 1 /\ ret = "err"
  /\ srv[2].phase = "idle"

\* C5: when every poll of a watch so far has failed, a poll made past the
\* failure-time threshold makes the watch send the finish (error, "failed")
\* and return an error; no watch that ends with "failed" has polled a
\* finished build, and a watch whose polls all failed ends with exactly that
\* one finish.
C5_PollsFailPastThreshold ==
  /\ [][pc = "poll" /\ pc' # "poll" /\ polls' = {"err"}
          /\ now - stime > failThreshold(variant)
        => /\ pc' = "sendFinish" /\ ret' = "err"
           /\ fin' = [err |-> TRUE, result |-> "failed"]]_vars
  /\ [](fin.result = "failed" => polls \cap Results = {})
  /\ [](pc = "afterWatch" /\ polls = {"err"} =>
          /\ finishes = 1 /\ ret = "err"
          /\ Events(IsFinish) = <<[e |-> "finish", j |-> job, err |-> TRUE,
                                   result |-> "failed",
                                   ticked |-> brTicks, built |-> FALSE]>>)

\* C5 witness: a watch all of whose polls failed has returned.
C5_Witness ==
  pc = "afterWatch" /\ polls = {"err"} /\ fin.result = "failed"

Min(a, b) == IF a < b THEN a ELSE b

\* C6: the estimator of a watch starts at 1 and its ticks stay within 1..99
\* and never decrease; a tick message is sent only while the recomputed
\* percent is greater than the ticks emitted so far, each one raising ticks
\* by one, and the send loop leaves ticks at min(percent, 99); a wake whose
\* percent is not greater sends nothing; the bar never shows more than the
\* estimator emitted and is completed by the finish update only.
C6_ForwardTicks ==
  /\ [](\A w \in DOMAIN tk :
          tk[w].pc # "off" => tk[w].ticks >= 1 /\ tk[w].ticks <= maxPercent)
  /\ [](brTicks <= maxPercent /\ (wid > 0 => brTicks <= tk[wid].ticks))
  /\ [](brDone => finishes = 1)
  /\ [][\A w \in DOMAIN tk :
          /\ tk[w].pc = "off" /\ tk'[w].pc # "off" => tk'[w].ticks = 1
          /\ tk[w].pc # "off" => tk'[w].ticks >= tk[w].ticks
          /\ tk[w].pc # "off" /\ tk'[w].ticks # tk[w].ticks =>
                /\ tk[w].pc = "send" /\ tk[w].ticks < tk[w].newTicks
                /\ tk'[w].ticks = tk[w].ticks + 1
                /\ barIn' = <<>> /\ barPc' = "msg"
          /\ tk[w].pc = "select" /\ tk'[w].pc = "send" =>
                tk'[w].newTicks > tk[w].ticks
          /\ tk[w].pc = "select" /\ tk'[w].pc = "select" /\ tk'[w] # tk[w]
               /\ pc' = pc =>
                \E p \in Percent(now - tk[w].stime, tk[w].dur) :
                  tk[w].ticks = IF p > tk[w].ticks
                                THEN Min(p, maxPercent) ELSE tk[w].ticks
          /\ tk[w].pc = "send" /\ tk'[w].pc = "select" =>
                tk'[w].ticks = Min(tk[w].newTicks, maxPercent)]_vars
  /\ [][brDone' # brDone => barPc = "finish" /\ brDone']_vars

\* C6 witness: a watch has returned whose estimator went up to 99 and whose
\* bar showed all of it.
C6_Witness ==
  pc = "afterWatch" /\ tk[1].ticks = maxPercent /\ brTicks = maxPercent

\* C7: when a normalization call is over, no two of the chunks it forwarded
\* have the same whitespace-trimmed content.
C7_NoDuplicateChunk ==
  pc = "h_ret" =>
    \A a, b \in DOMAIN sent :
      a < b => TrimSpace(sent[a].text) # TrimSpace(sent[b].text)

\* C7 witness: a call is over that forwarded a chunk and in whose input two
\* chunks have the same non-empty trimmed content.
C7_Witness ==
  /\ pc = "h_ret" /\ sent # <<>>
  /\ \/ \E a, b \in DOMAIN lines :
          /\ a < b /\ Len(lines[a]) <= size /\ Len(lines[b]) <= size
          /\ TrimSpace(lines[a]) = TrimSpace(lines[b])
     \/ /\ Len(lines) = 1 /\ Len(lines[1]) = 2 * size + 50
        /\ SubSeq(lines[1], 1, size) = SubSeq(lines[1], size + 1, 2 * size)

\* C8: of a console fetch with more than 50 source lines, every chunk
\* forwarded comes from one of the last 50 lines.
C8_LastFifty ==
  \A k \in DOMAIN sent : sent[k].src > Len(lines) - maxLines

\* C8 witness: a call on more than 50 lines is over and forwarded a chunk of
\* each of the last 50.
C8_Witness ==
  /\ pc = "h_ret" /\ Len(lines) > maxLines
  /\ {sent[k].src : k \in DOMAIN sent} =
       (Len(lines) - maxLines + 1)..Len(lines)

\* C9 as stated: a line of 1050 characters (here the only line of the fetch)
\* has been split into exactly 10 chunks when the call is over.
C9_TenChunks ==
  pc = "h_ret" /\ Len(lines) = 1 /\ Len(lines[1]) = LongLen
    /\ lines[1] = Cyclic(LongLen)
  => Len(retained) = guardFactor

\* C10 as stated: when the controller looks a queue entry up (queue # 0,
\* id = 0) whose build has already finished with SUCCESS, it reports that the
\* job was already executed with status SUCCESS.
C10_ReportsSuccess ==
  /\ intrPc = "lookup" /\ exitCode = 0
  /\ curSt.queue # 0 /\ curSt.id = 0
  /\ srv[JobOfQueue(curSt.queue)] = [phase |-> "done", result |-> "SUCCESS"]
  => report = <<"already executed", "SUCCESS">>

\* C11: when the controller has asked for the cancellation of a build (a
\* build number was active) and printed its report, the report is 'Canceled'
\* only if the status the request returned is ABORTED; for any other status
\* it says the job was already executed with that status; a failed request
\* is reported as such.
C11_CanceledOnlyIfAborted ==
  intrPc = "cancelJob" /\ report # NoReport =>
    /\ \E r \in requests : r.kind = "job"
    /\ \/ report = <<"failed to cancel job">>
       \/ /\ argName # NoName
          /\ LET status == srv[JobOfName(argName)].result
             IN \/ report = <<"Canceled">> /\ status = "ABORTED"
                \/ report = <<"already executed", status>>
                     /\ status # "ABORTED"

\* C11 witness: the build had ended with SUCCESS when its cancellation was
\* requested, and the controller reported that.
C11_Witness ==
  /\ intrPc = "cancelJob" /\ curSt.id # 0
  /\ report = <<"already executed", "SUCCESS">>

\* where the controller is after a confirming answer
CancelPcs ==
  {"cancelQueue", "callQueue", "checkId", "loadName", "cancelJob", "lookup"}

\* C12: the controller leaves its wait for signals only when a session is
\* active (job name not empty); a cancel request has been sent to the server
\* only if the user answered Y or y to the prompt; a queue-cancel request
\* is sent only after the controller found the session's queue id other
\* than 0 and a build-cancel request only after it found the build number
\* other than 0, and the request carries the id the session holds when it is
\* sent.
C12_CancelOnlyWhenConfirmed ==
  /\ [](requests # {} => answer \in {"Y", "y"} /\ intrPc \in CancelPcs)
  /\ [](answer # NoAnswer => intrPc \in {"prompt"} \cup CancelPcs)
  /\ [](\A r \in requests : r.kind \in {"queue", "job"})
  /\ [][intrPc = "idle" /\ intrPc' # "idle" => curSt.name # NoName]_vars
  /\ [][intrPc' = "callQueue" /\ intrPc # "callQueue" =>
          intrPc = "cancelQueue" /\ curSt.queue # 0]_vars
  /\ [][intrPc' = "loadName" /\ intrPc # "loadName" =>
          intrPc = "checkId" /\ curSt.id # 0]_vars
  /\ [][intrPc' = "cancelJob" /\ intrPc # "cancelJob" =>
          intrPc = "loadName"]_vars
  /\ [][\A r \in requests' \ requests :
          /\ answer \in {"Y", "y"}
          /\ r.kind = "queue" => intrPc = "callQueue" /\ r.id = curSt.queue
          /\ r.kind = "job" => intrPc = "cancelJob" /\ r.id = curSt.id]_vars

\* C12 witness: after the answer y both a queue-cancel and a build-cancel
\* request have been sent.
C12_Witness ==
  /\ answer = "y"
  /\ \E q, b \in requests : q.kind = "queue" /\ b.kind = "job"

\* C13 as stated: an estimator whose reference duration is 0 never sends a
\* tick message: it stays at the initial tick and never enters its send loop.
C13_NoTickAtZero ==
  \A w \in DOMAIN tk :
    tk[w].pc \in {"select", "send"} /\ tk[w].dur = 0 =>
      tk[w].ticks = 1 /\ tk[w].pc = "select"

\* the chunk of a line that starts at character j * size
ChunkOf(line, j) ==
  SubSeq(line, j * size + 1, Min((j + 1) * size, Len(line)))

\* C14: the chunks forwarded by one call are in the order of the source
\* (earlier line first, and left to right within a line), each being the
\* part of its line it is said to be; a send hands the coordinator the
\* message just built and appends to what was forwarded before; the fetches
\* of a watch follow each other in the order of their cursors.
C14_ChronologicalOrder ==
  /\ [](\A a, b \in DOMAIN sent :
          a < b => \/ sent[a].src < sent[b].src
                   \/ sent[a].src = sent[b].src /\ sent[a].j < sent[b].j)
  /\ [](\A a \in DOMAIN sent :
          sent[a].text = ChunkOf(lines[sent[a].src], sent[a].j))
  /\ [][sent' # sent /\ sent' # <<>> =>
          /\ Len(sent') > Len(sent)
          /\ SubSeq(sent', 1, Len(sent)) = sent
          /\ barIn' = msg]_vars
  /\ [][pc # "watchInit" => cursor' >= cursor]_vars

\* C14 witness: a verbose call is over that forwarded the three chunks of
\* its first line and then the chunk of its second line.
C14_Witness ==
  /\ pc = "h_ret" /\ verbose /\ Len(sent) = 4
  /\ \A k \in 1..3 : sent[k].src = 1 /\ sent[k].j = k - 1
  /\ sent[4].src = 2

\* C15: once the deployment check of a watch has ended, in whichever way, the
\* finish of that watch is (no error, SUCCESS), watchTheJob returns nil, and
\* runJob goes on to the next downstream project, or to "done" after the last
C15_CheckNeverFails ==
  /\ [](checked # NoOutcome /\ pc \in WatchPcs \cup {"afterWatch"} =>
          fin = [err |-> FALSE, result |-> "SUCCESS"] /\ ret = "nil")
  /\ [][checked # NoOutcome /\ pc = "defer" /\ pc' = "afterWatch" =>
          trace' = Append(trace, [e |-> "return", j |-> job, err |-> FALSE])]_vars
  /\ [][checked # NoOutcome /\ pc = "afterWatch" /\ pc' # "afterWatch" =>
          IF job < children
          THEN pc' = "watchNext" /\ job' = job + 1
          ELSE pc' = "finished" /\ donePrinted']_vars

\* a check that timed out, after which the first downstream project is awaited
C15_Witness ==
  /\ checked = "timeout" /\ pc = "watchNext" /\ job = 1
  /\ \E i \in DOMAIN trace : trace[i] = [e |-> "return", j |-> 0, err |-> FALSE]

\* C16 (as the code has it): when the watch of a job returns nil, runJob
\* resets curSt to the empty session before it awaits the next downstream
\* project or prints done; when the watch returns an error, runJob returns
\* with curSt still holding the failed job's name and build number
C16_ResetAfterSuccess ==
  [][pc = "afterWatch" /\ pc' # "afterWatch" =>
       IF ret = "nil"
       THEN curSt' = EmptySt /\ pc' \in {"watchNext", "finished"}
       ELSE /\ pc' = "returned" /\ curSt' = curSt
            /\ curSt.name = JobName(job) /\ curSt.id = BuildNoOf(job)]_vars

\* the parent's watch returned nil and the session is empty while the first
\* downstream project is looked up
C16_Witness ==
  /\ pc = "watchNext" /\ job = 1 /\ curSt = EmptySt
  /\ \E i \in DOMAIN trace : trace[i] = [e |-> "return", j |-> 0, err |-> FALSE]

\* C16 (as stated): after each watched job completes or fails, curSt is
\* empty before the run continues or returns
C16_ResetAlways ==
  [][pc = "afterWatch" /\ pc' # "afterWatch" => curSt' = EmptySt]_vars

\* C17: once watchTheJob has returned and closed the watch's channel, the
\* progress-ticking task of that watch is not blocked in its send of a tick
\* (its coordinator has exited, so that send could never be received)
C17_NoTickerLeftSending ==
  \A w \in DOMAIN tk : w \in closed => tk[w].pc # "send"

\* C18: the coordinator's receipt of a keystroke changes nothing of the bar;
\* it goes on to add exactly one line when the byte is Enter and goes back
\* to its select otherwise; adding the line leaves the progress value, the
\* done flag and the last message as they were
C18_KeyAddsOneLineOnEnter ==
  /\ [][keysPc = "send" /\ keysPc' = "read" =>
          /\ brLines' = brLines /\ brTicks' = brTicks
          /\ brDone' = brDone /\ barIn' = barIn
          /\ barPc' = IF keyByte = Enter THEN "key" ELSE "select"]_vars
  /\ [][barPc = "key" =>
          \/ UNCHANGED barVars
          \/ /\ brLines' = brLines + 1 /\ brTicks' = brTicks
             /\ brDone' = brDone /\ barIn' = barIn
             /\ barPc' = "select"]_vars

\* Enter was received and its line added: the bar has two lines
C18_Witness ==
  /\ keyByte = Enter /\ keysLeft = 0 /\ keysPc = "read"
  /\ barPc = "select" /\ brLines = 2

\* C19: when kubectl lists the pods, the pods findMatchingPods selects are
\* exactly the pods of the namespace whose name contains NAME, compared
\* without regard to case
C19_SelectsContaining ==
  podsPc \in {"found", "shown"} /\ ~kubectlErr =>
    {matchedPods[i] : i \in DOMAIN matchedPods}
      = {cluster[i] : i \in {k \in DOMAIN cluster :
                               Contains(ToLower(cluster[k]), ToLower(pattern))}}

\* C20: NewListener puts a channel in place of the listener's that differs
\* from the one before; a Read takes exactly one of the bytes pushed to the
\* channel of the moment, stores it, and returns n = 1 and no error
C20_NewChannelAndByteReads ==
  /\ [][stdinCh' # stdinCh => stdinCh' \notin 0..stdinCh /\ pending' = pending
                              /\ reads' = reads]_vars
  /\ [](\A i \in DOMAIN reads : reads[i].n = 1 /\ ~reads[i].err)
  /\ [][reads' # reads =>
          \E i \in DOMAIN pending :
            /\ pending[i].ch = stdinCh
            /\ reads' = Append(reads, [n |-> 1, err |-> FALSE,
                                       buf |-> pending[i].bytes[1],
                                       ch |-> stdinCh])
            /\ Len(pending') = Len(pending) - 1
            /\ \A k \in DOMAIN pending' :
                 pending'[k] = pending[IF k < i THEN k ELSE k + 1]]_vars

\* a byte read from the first channel, then a new listener, then a byte
\* read from the second channel
C20_Witness ==
  /\ Len(reads) = 2 /\ stdinCh = 2
  /\ reads[1].ch = 1 /\ reads[2].ch = 2 /\ reads[2].buf = Enter

\* C21: a watch starts with cursor 0; the cursor changes only when handle
\* returns a cursor different from the one it was given, and then becomes
\* exactly that cursor; a fetch that fails or returns its input cursor goes
\* straight to the return of handle with no lines and nothing sent, and the
\* cursor is the same after that return
C21_CursorPassedThrough ==
  /\ [][pc = "watchInit" /\ pc' # "watchInit" => cursor' = 0]_vars
  /\ [][cursor' # cursor =>
          \/ pc = "watchInit" /\ cursor' = 0
          \/ pc = "h_ret" /\ nextCursor # cursor /\ cursor' = nextCursor]_vars
  /\ [][pc = "h_ret" /\ pc' # "h_ret" => cursor' = nextCursor]_vars
  /\ [][pc = "h_fetch" /\ pc' # "h_fetch" /\ nextCursor' = cursor =>
          pc' = "h_ret" /\ lines' = <<>> /\ sent' = <<>> /\ barIn' = barIn
          /\ cursor' = cursor]_vars
  /\ [](pc \in {"h_line", "h_send"} => nextCursor # cursor)

\* the third fetch of a watch in its poll loop: it is given the cursor the
\* second advancing fetch returned
C21_Witness ==
  pc = "h_fetch" /\ hmode = "poll" /\ cursor = MaxFetch /\ Len(trace) >= 1

\* C22: on a SUCCESS result the finish is sent only after the final drain
\* (a drain fetch that did not advance the cursor), and the deployment check
\* is invoked only after that finish has been sent to the coordinator
C22_CheckAfterFinish ==
  /\ pc \in {"k8s", "sendFinish"} /\ ~fin.err => hmode = "drain"
  /\ pc \in {"k8s", "k8sAfter"} => finishes >= 1

\* C23: when handle returns, the chunks forwarded to the coordinator in that
\* call are the chunks the normalizer retained in it, each once, in both
\* display modes
C23_RetainedSentOnce ==
  pc = "h_ret" => sent = retained

\* C24: a poll that fails within the failure-time threshold (the first
\* failing poll of a watch, or a poll of a watch whose polls all failed)
\* sends no finish and sets no result: the watch calls handle for that cycle
\* in poll mode with its cursor, and polls again when handle returns; while
\* the watch is in a poll cycle no finish has been sent
C24_ErrorWithinThresholdRetries ==
  /\ [][(pc = "poll" /\ pc' # "poll"
          /\ polls' = polls \cup {"err"}
          /\ (polls' # polls \/ polls = {"err"})
          /\ now - stime <= failThreshold(variant))
        => (pc' = "h_fetch" /\ hmode' = "poll"
            /\ fin' = NoFin /\ ret' = "none" /\ finishes' = 0
            /\ cursor' = cursor /\ barIn' = barIn)]_vars
  /\ [][pc = "h_ret" /\ hmode = "poll" /\ pc' # "h_ret" => pc' = "poll"]_vars
  /\ [](pc \in {"poll", "h_fetch", "h_line", "h_send", "h_ret"} /\ hmode = "poll"
          => finishes = 0 /\ fin = NoFin)

\* a watch whose only poll failed within the threshold is polling again
\* after its console cycle
C24_Witness ==
  /\ pc = "poll" /\ polls = {"err"} /\ hmode = "poll"
  /\ now - stime <= failThreshold(variant) /\ finishes = 0 /\ ret = "none"

\* names that hold one of the front-end keywords (none of the jobs of the
\* model's chains is named so)
FrontEndNames == {"yarn-app"}

\* C25: when the watch of a SUCCESS build has returned, the deployment check
\* was invoked in it if and only if neither the job's name nor a console
\* chunk inspected in that watch held a front-end keyword
C25_CheckUnlessSkipMatched ==
  pc = "afterWatch" /\ ret = "nil" =>
    (checked # NoOutcome <=>
       ~(JobName(job)[1] \in FrontEndNames \/ matched))

\* the builds of the child's last six that name the parent as their cause
NamingParent ==
  {n \in (lastNo - 5)..lastNo : n \in DOMAIN hist /\ hist[n] = ByParent}

\* C26: when one of the child's last six builds names the parent job and
\* build as its cause, watchNext watches the lowest-numbered such build and
\* does not consult the queue; it searches the queue only when there is none,
\* and then waits on the first queue item of the child that names the parent
C26_HistoryBeforeQueue ==
  /\ [](findPc \in {"queue", "wait", "sleep"} => NamingParent = {} /\ bi = 0)
  /\ [](findPc = "watch" =>
          IF NamingParent # {}
          THEN /\ watching.kind = "build" /\ watching.id \in NamingParent
               /\ \A n \in NamingParent : watching.id <= n
               /\ queueId = 0
          ELSE /\ watching.kind = "queue" /\ watching.id = queueId
               /\ \E k \in DOMAIN queues :
                    /\ queues[k] = QueueItem(ChildName, ByParent, queueId)
                    /\ \A m \in 1..(k - 1) :
                         queues[m] # QueueItem(ChildName, ByParent,
                                               queues[m].id))
  /\ [][findPc = "builds" /\ findPc' \notin {"builds", "exit"} =>
          findPc' = IF NamingParent # {} THEN "watch" ELSE "queue"]_vars

\* two of the last six builds name the parent (numbers 3 and 6 of 7, with
\* build 1 outside the window naming it too): build 3 is watched
C26_Witness ==
  /\ findPc = "watch" /\ lastNo = 7 /\ hist[1] = ByParent
  /\ NamingParent = {3, 6} /\ watching = [kind |-> "build", id |-> 3]
  /\ queues # <<>>

\* a build of the last six, or a queue item of the child, names the parent
Visible == NamingParent # {} \/ FoundQueue(queues) # 0

C28_ReturnsAssignedBuild ==
  /\ [][pc = "waitExec" /\ pc' # "waitExec" =>
          /\ pc' = "watchInit"
          /\ srv[job].phase \in {"building", "done"}
          /\ number' = BuildNoOf(job) /\ curSt'.id = BuildNoOf(job)
          /\ notices' = notices]_vars
  /\ [](pc = "waitExec" => notices = (IF informed THEN 1 ELSE 0))
  /\ [][pc = "waitExec" /\ informed => notices' = notices]_vars

\* the wait for the executor of the first downstream project returned after
\* it had printed its notice
C28_Witness ==
  pc = "watchInit" /\ job = 1 /\ informed /\ notices = 1 /\ number = BuildNoOf(1)

\* C29: once the prompt has been answered the process ends: a declining
\* answer ends it at once with status 0, a confirmed one leaves the
\* controller in its cancellation steps, holding the display lock, until the
\* process has ended, and every report of the cancellation (canceled,
\* already executed, failed to cancel) comes with status 0
C29_AnsweredThenExit ==
  /\ [][answer = NoAnswer /\ answer' # NoAnswer /\ ~Confirms(answer')
          => exitCode' = 0]_vars
  /\ [](answer # NoAnswer =>
          /\ barMutex = "intr"
          /\ intrPc \in {"prompt"} \cup CancelPcs
          /\ intrPc = "prompt" => ~Running /\ ~Confirms(answer))
  /\ [](report # NoReport => exitCode = 0)
  /\ (answer # NoAnswer ~> ~Running)

\* a confirmed cancellation found the build already finished and the
\* process ended with status 0
C29_Witness ==
  /\ answer = "Y" /\ report = <<"already executed", "FAILURE">>
  /\ exitCode = 0

RECURSIVE Concat(_)
Concat(ss) == IF ss = <<>> THEN <<>> ELSE Head(ss) \o Concat(Tail(ss))

\* the statement of C30 about the slices of line l; the chunks the loop
\* retained are among them
SlicedInOrder(l) ==
  LET c == Slices(l, 0)
  IN /\ Len(c) = (Len(l) + size - 1) \div size
     /\ \A k \in 1..Len(c) :
          /\ Len(c[k]) <= size
          /\ c[k] = SubSeq(l, (k - 1) * size + 1, Min(k * size, Len(l)))
     /\ Concat(c) = l
RetainedAreSlices ==
  \A k \in 1..Len(retained) :
    LET r == retained[k]
    IN /\ r.j + 1 \in 1..Len(Slices(lines[r.src], 0))
       /\ r.text = Slices(lines[r.src], 0)[r.j + 1]

\* C30 (amended): for a non-empty source line of at most 1000 characters the
\* slices the chunk loop forms before it filters them are consecutive slices
\* of at most 100 characters, ceil(length/100) of them, whose concatenation
\* in order is the line; every retained chunk is one of them
C30_SlicesOfNonEmptyLine ==
  /\ \A i \in 1..Len(lines) :
       0 < Len(lines[i]) /\ Len(lines[i]) <= guardFactor * size
         => SlicedInOrder(lines[i])
  /\ RetainedAreSlices

\* a line of 250 characters went through the loop as three retained chunks
C30_Witness ==
  /\ pc = "h_ret" /\ Len(lines) = 1 /\ Len(lines[1]) = 2 * size + 50
  /\ Len(Slices(lines[1], 0)) = 3 /\ Len(retained) = 3

\* C30 as stated: the same for every source line of at most 1000 characters,
\* the empty one included
C30_SlicesOfAnyLine ==
  \A i \in 1..Len(lines) :
    Len(lines[i]) <= guardFactor * size => SlicedInOrder(lines[i])

\* C31: the deployment check always returns; while it waits the timeout has
\* not passed, it returns only after the context was cancelled (by the
\* signal, the timeout, the empty pod list or the repeated failures), and no
\* time passes between a cancellation and the return
C31_CheckAlwaysReturns ==
  /\ (ckPc = "wait" ~> ckPc = "returned")
  /\ [](ckPc = "wait" => ckClock <= checkTimeout)
  /\ [](ckPc = "returned" =>
          /\ cancels # {}
          /\ cancels \subseteq {"signal", "timeout", "nopod", "failures"})
  /\ [][cancels' # cancels => ctxDone']_vars
  /\ [][ckPc = "wait" /\ ctxDone => ckClock' = ckClock]_vars
  /\ [](("timeout" \in cancels) => ckClock >= checkTimeout)

\* the check returned before its timeout because the monitor had stopped
\* after two status failures
C31_Witness ==
  /\ ckPc = "returned" /\ cancels = {"failures"}
  /\ ckClock < checkTimeout /\ currentFailures > maxFailures

\* C32: during a watch the keystroke task never holds barMutex, blocked in
\* its send on the key channel, while the coordinator is blocked acquiring
\* barMutex
C32_NoKeyDeadlock ==
  ~(/\ Running /\ keysPc = "send" /\ barMutex = "keys"
    /\ barPc \in {"init", "msg", "key", "finish"})

\* C33: in a chain the key listener is never left holding barMutex, blocked
\* in its send on the key channel, after the coordinator of the watch has
\* exited and while a downstream watch is still to start its coordinator
C33_KeyAfterFinishHarmless ==
  ~(/\ Running /\ job < children
    /\ keysPc = "send" /\ barMutex = "keys" /\ barPc = "done")

\* the session s names one job: its non-zero ids are that job's
OneJob(s) ==
  /\ s.name # NoName
  /\ s.id # 0 => s.id = BuildNoOf(JobOfName(s.name))
  /\ s.queue # 0 => s.queue = QueueIdOf(JobOfName(s.name))

\* C34: the session is empty or names one job together with that job's own
\* build number and queue id, and every cancel request the controller sent
\* named a job together with an id of that job
C34_ConsistentSession ==
  /\ [](curSt = EmptySt \/ OneJob(curSt))
  /\ [](\A r \in requests :
          /\ r.name # NoName
          /\ r.id = IF r.kind = "job" THEN BuildNoOf(JobOfName(r.name))
                    ELSE QueueIdOf(JobOfName(r.name)))

\* C35: the failure budget runs from the start of the watch: the first poll
\* of a watch that fails, made later than the threshold after the watch
\* started, sends the finish (error, "failed") and ends the watch with an
\* error, whatever the earlier polls saw; a poll that fails earlier than
\* that does not
C35_BudgetFromWatchStart ==
  [][pc = "poll" /\ firstErr < 0 /\ firstErr' >= 0 =>
       IF now - stime > failThreshold(variant)
       THEN /\ pc' = "sendFinish" /\ ret' = "err"
            /\ fin' = [err |-> TRUE, result |-> "failed"]
       ELSE pc' = "h_fetch" /\ fin' = fin]_vars

\* the only failed poll of a watch came past the threshold, after polls that
\* had seen the build running, and the watch failed on it
C35_Witness ==
  /\ pc = "sendFinish" /\ fin.result = "failed"
  /\ polls = {"building", "err"}
  /\ firstErr = now /\ now - stime > failThreshold(variant)

\* where watchTheJob is inside handle
HandlePcs == {"h_fetch", "h_line", "h_send", "h_ret"}

\* C36: a poll that sees the build ended with a result other than SUCCESS
\* goes straight to the finish with that result; watchTheJob is never in a
\* console fetch once it holds a failing finish, and it drains the console
\* only after it saw SUCCESS
C36_NoFetchAfterFailure ==
  /\ [][/\ pc = "poll" /\ polls' # polls
         /\ polls' \cap {"FAILURE", "ABORTED"} # {}
        => /\ pc' = "sendFinish" /\ ret' = "err"
           /\ fin' = [err |-> TRUE, result |-> srv[job].result]
           /\ cursor' = cursor /\ sent' = sent]_vars
  /\ [](pc \in HandlePcs => ~fin.err /\ polls \cap {"FAILURE", "ABORTED"} = {})
  /\ [](pc \in HandlePcs /\ hmode = "drain" => "SUCCESS" \in polls)
  /\ [][fin.err => cursor' = cursor \/ pc' = "poll"]_vars

\* a build that had produced console output failed, and the watch returned
\* with output of the server left unfetched
C36_Witness ==
  /\ pc = "afterWatch" /\ fin = [err |-> TRUE, result |-> "FAILURE"]
  /\ cursor = 1 /\ cursor < MaxFetch /\ texts # {}
  /\ polls = {"building", "FAILURE"}

\* C37: every call of watchNext names the triggered job and its build number
\* as the upstream cause and is made for a declared downstream project of the
\* triggered job; a watch that starts is the watch of the triggered job or
\* of the project of the last such call, so no job beyond the declared ones
\* is watched
C37_DepthOne ==
  /\ \A i \in DOMAIN trace :
       IsWatchNext(trace[i]) =>
         /\ trace[i].cause = [name |-> JobName(0), number |-> BuildNoOf(0)]
         /\ trace[i].j \in 1..children
  /\ job \in 0..children
  /\ \A i \in DOMAIN trace : trace[i].j \in 0..children
  /\ pc \in WatchPcs /\ job # 0 =>
       /\ Walked # <<>> /\ Walked[Len(Walked)] = job
       /\ CauseOf(job) = [name |-> JobName(0), number |-> BuildNoOf(0)]

\* the run ended after the one declared downstream project; the project
\* downstream of that one was built on the server and never watched
C37_Witness ==
  /\ pc = "finished" /\ children = 1 /\ children < MaxChildren
  /\ Walked = <<1>>
  /\ srv[2].phase = "done"
  /\ \A i \in DOMAIN trace : trace[i].j # 2

\* C38: a signal taken from the channel while the name of the session is
\* empty leaves the controller waiting for the next signal: no lock, no
\* prompt, no answer, no request, no exit, and the main goroutine is where
\* it was; as long as the controller has only ignored signals, nothing was
\* asked, requested or reported
C38_IgnoredWhenNoSession ==
  /\ [][sigLeft' < sigLeft /\ curSt.name = NoName =>
          /\ intrPc' = "idle"
          /\ answer' = answer /\ requests' = requests /\ report' = report
          /\ exitCode' = exitCode /\ barMutex' = barMutex
          /\ pc' = pc /\ curSt' = curSt]_vars
  /\ [](intrPc = "idle" =>
          answer = NoAnswer /\ requests = {} /\ report = NoReport)

\* a signal was ignored and the run is between two jobs of a chain, or it
\* went on to its end
C38_Witness ==
  /\ sigLeft < MaxSignals /\ intrPc = "idle" /\ Running
  /\ job >= 1 /\ curSt.name = NoName
  /\ pc \in {"watchNext", "finished"}

\* a text with a character that is neither white space nor a line break
NonBlank(s) == \E i \in 1..Len(s) : s[i] \notin Whitespace \cup {"\n"}

\* C39: what handle is about to send, and what the coordinator receives from
\* handle, has a non-whitespace character; what it receives from the ticker
\* is the empty text; so the coordinator ticks the bar exactly for the
\* messages of the ticker and interrupts it exactly for those of handle
C39_LinesAndTicksDistinct ==
  /\ [](pc = "h_send" => NonBlank(msg))
  /\ [][barPc = "select" /\ barPc' = "msg" =>
          IF tk' = tk
          THEN pc = "h_send" /\ barIn' = msg /\ NonBlank(barIn')
          ELSE barIn' = <<>> /\ sent' = sent /\ pc' = pc]_vars
  /\ [][barPc = "msg" /\ barPc' = "select" =>
          IF NonBlank(barIn) THEN brTicks' = brTicks
          ELSE barIn = <<>> /\ brTicks' = brTicks + 1]_vars

\* the coordinator has been ticked more than once and holds a console line
\* it received from handle
C39_Witness ==
  /\ barPc = "msg" /\ NonBlank(barIn) /\ brTicks > 1 /\ sent # <<>>

\* C40: once execPodContainer is past the status check of a line with fewer
\* than three fields, it has reported the pod as not running and returned,
\* and it never read a field past the end of the list
C40_ShortLineReported ==
  /\ execPc # "panicked"
  /\ execPc \in {"returned", "exec"} /\ execOut # "noSuchPod"
       /\ Len(fields) < 3 =>
         execPc = "returned" /\ execOut = "notRunning"

====
